---- MODULE Spec2Model ----
(***************************************************************************)
(* The capability adapter of xiaoyaosearch: BaseLLMProvider's response     *)
(* cache, retry loop, usage counters and generate_batch, run as asyncio    *)
(* tasks.  Code between two awaits runs atomically on the event loop, so   *)
(* each action is one such segment of generate_response.  Then the query   *)
(* understanding service with its four analyzers, and the search service   *)
(* with its vector branch, its fulltext branch and their merge.            *)
(***************************************************************************)
EXTENDS Integers, Sequences, FiniteSets, TLC

\* ---------------------------------------------------------------- bounds
\* number of prompts handed to generate_batch
NPrompts == 3
\* largest configured LLMConfig.max_retries that is explored, for a batch and
\* for a single call
MaxRetries == 1
MaxRetriesSingle == 3
\* largest max_concurrent handed to generate_batch
MaxConcurrent == 2
\* the clock (datetime.now().timestamp()) runs from 0 to MaxTime
MaxTime == 1
\* the configured LLMConfig.cache_ttl, in clock units
CacheTtl == 1

\* number of generate_response calls made directly, side by side
NCalls == 2
\* the most analyzers enabled in a request that runs on the adapter model
MaxEnabled == 2
\* the most words in a query text
MaxWords == 3
\* the most days that pass after the service was constructed
MaxDays == 1
\* largest limit handed to search, and the most hits a branch returns
MaxLimit == 3
MaxHits == 2

\* ------------------------------------------------------ program constants
\* "if len(self._cache) > 1000"
CacheLimit == 1000
\* LLMConfig.retry_delay
RetryDelay == 1
\* extract_keywords(..., max_keywords: int = 10)
MaxKeywords == 10
\* "if len(self._cache) < 1000" of the service's _cache_result
ServiceCacheLimit == 1000

\* Characters are their code points, strings are sequences of them.
Colon == <<58>>
PromptA == <<97>>
PromptB == <<98>>
PromptSet == {PromptA, PromptB}
\* the system prompt shared by the calls of one batch ("" when None)
SystemPrompt == <<>>
\* str(self.config.temperature), str(self.config.max_tokens): "0.1", "500"
TemperatureStr == <<48, 46, 49>>
MaxTokensStr == <<53, 48, 48>>
\* the prompt of the i-th earlier request, distinct from every PromptSet member
OtherPrompt(i) == <<102, i>>

\* requests whose prompt or system prompt holds the separator: "a:", ":"
PromptAColon == <<97, 58>>
KeyPrompts == {PromptA, PromptAColon}
KeySystemPrompts == {SystemPrompt, Colon}
\* **kwargs: none, or an option handed on to the capability (temperature=0.9)
KwargsSet == {<<>>, <<"temperature=0.9">>}

VARIABLES
    config,          \* LLMConfig: max_retries, enable_caching, cache_ttl
    prompts,         \* generate_batch's prompts
    system_prompts,  \* the system_prompt argument of each call
    kwargs,          \* the **kwargs of each call, handed on to the capability
    max_concurrent,  \* generate_batch's max_concurrent
    _client,         \* self._client is not None
    _cache,          \* self._cache, a dict: its entries in insertion order
    hit_flag,        \* ids of the response objects whose metadata.cache_hit is True
    _request_count,  \* self._request_count
    _total_tokens,   \* self._total_tokens
    now,             \* datetime.now().timestamp()
    semaphore,       \* the asyncio.Semaphore's value
    task,            \* the generate_with_semaphore tasks, by prompt position
    batch,           \* generate_batch: "running", then its returned list
    requests,        \* the understand_query calls the service is to receive
    call_no,         \* how many of them have begun
    u_pc,            \* understand_query: "idle", "gathering", "returned"
    analyzer,        \* the task of each analyzer in the current call
    interpretation,  \* what the last understand_query returned
    service_cache,   \* QueryUnderstandingService._cache
    service_caching, \* QueryUnderstandingService.enable_caching
    search_request,  \* the arguments of the search call: search_type, limit
    search_pc,       \* search: "idle", "semantic", "fulltext", "finish", "done"
    faiss_index,     \* self.faiss_index is loaded and AI models are in use
    whoosh_index,    \* self.whoosh_index is loaded
    semantic_results,  \* what _semantic_search returned
    fulltext_results,  \* what _fulltext_search returned
    search_response, \* what search returned
    search_stats,    \* self.search_stats
    today,           \* datetime.now().date(), as a day number: day 0 is a Monday
    parser_now       \* TimeParser.now, set when the service is constructed

adapterVars == <<config, prompts, system_prompts, kwargs, max_concurrent, _client,
                 _cache, hit_flag, _request_count, _total_tokens, now, semaphore,
                 task, batch>>
serviceVars == <<requests, call_no, u_pc, analyzer, interpretation, service_cache,
                 service_caching>>
searchVars == <<search_request, search_pc, faiss_index, whoosh_index,
                semantic_results, fulltext_results, search_response, search_stats>>
\* the calendar, which no operation of the program writes after __init__
clockVars == <<today, parser_now>>
vars == <<adapterVars, serviceVars, searchVars, clockVars>>
nonAdapterVars == <<serviceVars, searchVars, clockVars>>
nonServiceVars == <<adapterVars, searchVars, clockVars>>
nonSearchVars == <<adapterVars, serviceVars, clockVars>>

Tasks == 1..Len(prompts)

\* --------------------------------------------------------------- responses
\* Optional fields are sequences: <<>> is None, <<v>> is a value.
None == <<>>

\* LLMErrorInfo of the exception that ended an attempt (_extract_error_info):
\* <<error_type, is_recoverable>>
FailureKinds == {"timeout", "authentication", "blank_content"}

_extract_error_info(kind) ==
    CASE kind = "timeout"        -> <<"timeout", TRUE>>
      [] kind = "authentication" -> <<"authentication", FALSE>>
      [] kind = "blank_content"  -> <<"ValidationError", FALSE>>
      [] kind = "client_init"    -> <<"Exception", FALSE>>

\* LLMResponse(status=SUCCESS, data=LLMResponseData(content=...), metadata=...)
\* rid is the identity of the response object: the task that created it (a
\* task creates at most one).  The content names the prompt and the attempt
\* that produced it.
SuccessResponse(rid, content) ==
    [rid |-> rid, status |-> "success", data |-> <<content>>, error |-> None]

\* an error response that carries no error information
ErrorWithoutInfo(kind) ==
    [rid |-> 0, status |-> "error", data |-> None, error |-> None]

\* LLMResponse(status=ERROR, error=self._extract_error_info(e), metadata=...)
ErrorResponse(kind) ==
    [rid |-> 0, status |-> "error", data |-> None,
     error |-> <<_extract_error_info(kind)>>]

\* what generate_response returns when its loop ends without a return
NoneResponse == [rid |-> 0, status |-> "none", data |-> None, error |-> None]

is_successful(r) == r.status = "success"

\* usage_info['total_tokens'] reported by the provider for a completion
UsageTokens(prompt) == Len(prompt)

\* ------------------------------------------------------------------- cache
\* f"{prompt}:{system_prompt or ''}:{temperature}:{max_tokens}", then md5
\* (taken to be injective on these strings)
_generate_cache_key(prompt, system_prompt) ==
    prompt \o Colon \o system_prompt \o Colon \o TemperatureStr \o Colon \o MaxTokensStr

CacheIndex(c, key) ==
    IF \E i \in 1..Len(c) : c[i].key = key
    THEN CHOOSE i \in 1..Len(c) : c[i].key = key
    ELSE 0

RemoveAt(c, i) == [j \in 1..(Len(c) - 1) |-> IF j < i THEN c[j] ELSE c[j + 1]]

\* min(self._cache.keys(), key=lambda k: self._cache[k][1]): the first entry,
\* in dict order, among those with the smallest timestamp
OldestIndex(c) ==
    CHOOSE i \in 1..Len(c) :
        /\ \A j \in 1..Len(c) : c[i].ts <= c[j].ts
        /\ \A j \in 1..(i - 1) : c[j].ts > c[i].ts

\* _get_cached_response with the age test turned around: a fresh entry is
\* dropped and an expired one served
LookupAgeReversed(c, key, t) ==
    LET i == CacheIndex(c, key) IN
    IF ~config.enable_caching THEN <<"off", 0, c>>
    ELSE IF i = 0 THEN <<"miss", 0, c>>
    ELSE IF t - c[i].ts >= config.cache_ttl THEN <<"hit", i, c>>
    ELSE <<"expired", i, RemoveAt(c, i)>>

\* _get_cached_response with "<=" for "<": an entry is served at age = TTL
LookupAgeInclusive(c, key, t) ==
    LET i == CacheIndex(c, key) IN
    IF ~config.enable_caching THEN <<"off", 0, c>>
    ELSE IF i = 0 THEN <<"miss", 0, c>>
    ELSE IF t - c[i].ts <= config.cache_ttl THEN <<"hit", i, c>>
    ELSE <<"expired", i, RemoveAt(c, i)>>

\* _get_cached_response: <<outcome, entry index, cache afterwards>>
\* outcome is "off", "hit", "expired" or "miss"
_get_cached_response(c, key, t) ==
    LET i == CacheIndex(c, key) IN
    IF ~config.enable_caching THEN <<"off", 0, c>>
    ELSE IF i = 0 THEN <<"miss", 0, c>>
    ELSE IF t - c[i].ts < config.cache_ttl THEN <<"hit", i, c>>
    ELSE <<"expired", i, RemoveAt(c, i)>>

\* a store that keeps, under the key, the error response of a failed call
StoreKeepsError(c, key, r, t) ==
    IF config.enable_caching
    THEN Append(c, [key |-> key, resp |-> ErrorResponse("timeout"), ts |-> t])
    ELSE c

\* _cache_response that adds an entry without looking for the key
StoreAppends(c, key, r, t) ==
    IF config.enable_caching /\ is_successful(r)
    THEN LET stored == Append(c, [key |-> key, resp |-> r, ts |-> t])
         IN  IF Len(stored) > CacheLimit
             THEN RemoveAt(stored, OldestIndex(stored))
             ELSE stored
    ELSE c

\* _cache_response: the cache after storing response r under key at time t
_cache_response(c, key, r, t) ==
    IF config.enable_caching /\ is_successful(r)
    THEN LET i == CacheIndex(c, key)
             e == [key |-> key, resp |-> r, ts |-> t]
             stored == IF i = 0 THEN Append(c, e) ELSE [c EXCEPT ![i] = e]
         IN  IF Len(stored) > CacheLimit
             THEN RemoveAt(stored, OldestIndex(stored))
             ELSE stored
    ELSE c

\* ------------------------------------------------------------------- tasks
NewTask ==
    [pc |-> "queued", attempt |-> 0, result |-> None,
     \* bookkeeping of the run, read by the properties only
     invocations |-> 0, failures |-> 0, answered |-> 0, lookup |-> "none",
     entry_ts |-> -1, delays |-> <<>>]

\* for attempt in range(self.config.max_retries + 1)
AttemptLimit == config.max_retries + 1

\* self.config.retry_delay * (2 ** attempt)
RECURSIVE Pow2(_)
Pow2(n) == IF n = 0 THEN 1 ELSE 2 * Pow2(n - 1)
\* a wait that grows by retry_delay with every attempt
BackoffLinear(attempt) == RetryDelay * (attempt + 1)

BackoffDelay(attempt) == RetryDelay * Pow2(attempt)

\* the except branch with "attempt == max_retries - 1": one attempt too few
AfterFailureShort(t, kind) ==
    IF t.attempt = config.max_retries - 1
    THEN [t EXCEPT !.pc = "done", !.result = <<ErrorResponse(kind)>>]
    ELSE IF t.attempt < config.max_retries - 1
    THEN [t EXCEPT !.pc = "backoff",
                   !.delays = Append(@, BackoffDelay(t.attempt))]
    ELSE [t EXCEPT !.pc = "backoff"]

\* the except branch with "attempt > max_retries": the error response is never
\* built and the loop runs out
AfterFailureNever(t, kind) ==
    IF t.attempt > config.max_retries
    THEN [t EXCEPT !.pc = "done", !.result = <<ErrorResponse(kind)>>]
    ELSE IF t.attempt < config.max_retries
    THEN [t EXCEPT !.pc = "backoff",
                   !.delays = Append(@, BackoffDelay(t.attempt))]
    ELSE [t EXCEPT !.pc = "backoff"]

\* the except branch of a loop that gives up at once on a failure classified
\* as non-recoverable
AfterFailureGivesUp(t, kind) ==
    IF t.attempt = config.max_retries \/ ~_extract_error_info(kind)[2]
    THEN [t EXCEPT !.pc = "done", !.result = <<ErrorResponse(kind)>>]
    ELSE IF t.attempt < config.max_retries
    THEN [t EXCEPT !.pc = "backoff",
                   !.delays = Append(@, BackoffDelay(t.attempt))]
    ELSE [t EXCEPT !.pc = "backoff"]

\* the "except Exception" branch of generate_response after attempt t.attempt
\* failed with an exception of the given kind: the task record afterwards
AfterFailure(t, kind) ==
    IF t.attempt = config.max_retries
    THEN [t EXCEPT !.pc = "done", !.result = <<ErrorResponse(kind)>>]
    ELSE IF t.attempt < config.max_retries
    THEN [t EXCEPT !.pc = "backoff",
                   !.delays = Append(@, BackoffDelay(t.attempt))]
    ELSE [t EXCEPT !.pc = "backoff"]

\* the try branch without its "return response": the loop goes on
AfterSuccessNoReturn(t, r, ts) ==
    [t EXCEPT !.pc = "backoff", !.answered = @ + 1]

\* the try branch of generate_response once _attempt_generation has returned
\* response r at time ts: "return response"
AfterSuccess(t, r, ts) ==
    [t EXCEPT !.pc = "done", !.result = <<r>>, !.entry_ts = ts,
              !.answered = @ + 1]

\* _attempt_generation up to its await on the capability: _get_client(), which
\* initialises the client when there is none (init_ok: whether that succeeds),
\* then the call of _generate_completion under asyncio.wait_for
BeginAttempt(t, init_ok) ==
    IF _client \/ init_ok
    THEN [t EXCEPT !.pc = "inflight", !.invocations = @ + 1]
    ELSE AfterFailure(t, "client_init")

InitOutcomes == IF _client THEN {TRUE} ELSE BOOLEAN

\* the next iteration of "for attempt in range(max_retries + 1)": the next
\* attempt, or the end of the loop and of the function
NextIteration(t, init_ok) ==
    IF t.attempt + 1 < AttemptLimit
    THEN BeginAttempt([t EXCEPT !.attempt = @ + 1], init_ok)
    ELSE [t EXCEPT !.pc = "done", !.result = <<NoneResponse>>]

\* a semaphore that lets every task in
SlotAlwaysFree == TRUE

\* "async with semaphore": a task enters when the semaphore's value is positive
SlotFree == semaphore > 0

\* a slot that is given back only by a call that returns success
SemaphoreKeptOnError(t0, t1) ==
    semaphore - (IF t0.pc = "queued" THEN 1 ELSE 0)
              + (IF t1.pc = "done" /\ is_successful(t1.result[1]) THEN 1 ELSE 0)

\* "async with semaphore" around generate_response: the semaphore's value once
\* the step that took task record t0 to t1 is over (acquired on entry, released
\* on return)
SemaphoreAfter(t0, t1) ==
    semaphore - (IF t0.pc = "queued" THEN 1 ELSE 0)
              + (IF t1.pc = "done" THEN 1 ELSE 0)

\* the results in the reverse order of the tasks
GatherReversed(t) == [i \in DOMAIN t |-> t[Len(t) + 1 - i].result[1]]

\* asyncio.gather(*tasks): the results in the order of the tasks
GatherResults(t) == [i \in DOMAIN t |-> t[i].result[1]]

\* ----------------------------------------------------------------- actions
\* generate_with_semaphore(prompt): "async with semaphore", then
\* generate_response up to its first await: the cache lookup and, on a miss,
\* the start of attempt 0.
Start(i) ==
    /\ task[i].pc = "queued"
    /\ SlotFree
    /\ LET key == _generate_cache_key(prompts[i], system_prompts[i])
           look == _get_cached_response(_cache, key, now)
           t0 == [task[i] EXCEPT !.lookup = look[1]]
       IN  IF look[1] = "hit"
           THEN /\ task' = [task EXCEPT ![i] =
                              [t0 EXCEPT !.pc = "done",
                                         !.result = <<_cache[look[2]].resp>>,
                                         !.entry_ts = _cache[look[2]].ts]]
                /\ hit_flag' = hit_flag \cup {_cache[look[2]].resp.rid}
                /\ UNCHANGED <<_cache, _client, semaphore>>
           ELSE /\ _cache' = look[3]
                /\ \E init_ok \in InitOutcomes :
                      LET t1 == BeginAttempt(t0, init_ok) IN
                      /\ task' = [task EXCEPT ![i] = t1]
                      /\ _client' = (_client \/ init_ok)
                      /\ semaphore' = SemaphoreAfter(task[i], t1)
                /\ UNCHANGED hit_flag
    /\ UNCHANGED <<config, prompts, system_prompts, kwargs, max_concurrent, _request_count,
                   _total_tokens, now, batch>>
    /\ UNCHANGED nonAdapterVars

\* the statistics update of _attempt_generation
CountRequest(prompt) ==
    /\ _request_count' = _request_count + 1
    /\ _total_tokens' = IF UsageTokens(prompt) # 0
                       THEN _total_tokens + UsageTokens(prompt)
                       ELSE _total_tokens

\* The capability call of task i returns content: the rest of
\* _attempt_generation, then _cache_response and the return.
CompleteOk(i) ==
    /\ task[i].pc = "inflight"
    /\ LET key == _generate_cache_key(prompts[i], system_prompts[i])
           r == SuccessResponse(i, <<prompts[i], task[i].attempt>>)
       IN  /\ CountRequest(prompts[i])
           /\ _cache' = _cache_response(_cache, key, r, now)
           /\ task' = [task EXCEPT ![i] = AfterSuccess(@, r, now)]
    /\ semaphore' = SemaphoreAfter(task[i], task'[i])
    /\ UNCHANGED <<config, prompts, system_prompts, kwargs, max_concurrent, _client, hit_flag, now, batch>>
    /\ UNCHANGED nonAdapterVars

\* The capability call of task i raises, times out, or returns no usable
\* content: the except branch of generate_response.  Blank content passes
\* _extract_content and fails LLMResponseData's validator after the statistics
\* were updated.
CompleteFail(i) ==
    /\ task[i].pc = "inflight"
    /\ \E kind \in FailureKinds :
          /\ task' = [task EXCEPT ![i] =
                        AfterFailure([@ EXCEPT !.failures = @ + 1], kind)]
          /\ IF kind = "blank_content"
             THEN CountRequest(prompts[i])
             ELSE UNCHANGED <<_request_count, _total_tokens>>
    /\ semaphore' = SemaphoreAfter(task[i], task'[i])
    /\ UNCHANGED <<config, prompts, system_prompts, kwargs, max_concurrent, _client, _cache, hit_flag,
                   now, batch>>
    /\ UNCHANGED nonAdapterVars

\* asyncio.sleep(retry_delay * 2 ** attempt) is over: the next attempt starts
Wake(i) ==
    /\ task[i].pc = "backoff"
    /\ \E init_ok \in InitOutcomes :
          LET t1 == NextIteration(task[i], init_ok) IN
          /\ task' = [task EXCEPT ![i] = t1]
          /\ _client' = (_client \/ init_ok)
          /\ semaphore' = SemaphoreAfter(task[i], t1)
    /\ UNCHANGED <<config, prompts, system_prompts, kwargs, max_concurrent, _cache, hit_flag,
                   _request_count, _total_tokens, now, batch>>
    /\ UNCHANGED nonAdapterVars

\* asyncio.gather(*tasks): every task has returned; the results are listed in
\* the order of the tasks, which is the order of the prompts
Gather ==
    /\ ~batch.returned
    /\ \A i \in Tasks : task[i].pc = "done"
    /\ batch' = [returned |-> TRUE,
                 responses |-> GatherResults(task)]
    /\ UNCHANGED <<config, prompts, system_prompts, kwargs, max_concurrent, _client, _cache, hit_flag,
                   _request_count, _total_tokens, now, semaphore, task>>
    /\ UNCHANGED nonAdapterVars

\* the clock advances
Tick ==
    /\ now < MaxTime
    /\ now' = now + 1
    /\ UNCHANGED <<config, prompts, system_prompts, kwargs, max_concurrent, _client, _cache, hit_flag,
                   _request_count, _total_tokens, semaphore, task, batch>>
    /\ UNCHANGED nonAdapterVars

\* ============================================ query understanding: analyzers
\* Confidences and scores are counted in 600ths (0.5 is 300), so that the
\* thresholds of the code and the ratios of small pattern counts are whole
\* numbers; products are rounded down.
Pct(p) == 6 * p
Ratio(a, b) == (600 * a) \div b
Min2(a, b) == IF a <= b THEN a ELSE b
Max2(a, b) == IF a >= b THEN a ELSE b

\* The range of a sequence, and the stable sort of a sequence of records by
\* descending score: sorted(items, key=score, reverse=True).
Range(s) == {s[i] : i \in 1..Len(s)}
RankDesc(s, i) ==
    1 + Cardinality({j \in 1..Len(s) :
                        \/ s[j].score > s[i].score
                        \/ s[j].score = s[i].score /\ j < i})
SortedDesc(s) ==
    [p \in 1..Len(s) |-> s[CHOOSE i \in 1..Len(s) : RankDesc(s, i) = p]]
Take(s, n) == [i \in 1..Min2(n, Len(s)) |-> s[i]]

\* A query is known by what the rule passes find in it:
\*   language   LanguageDetector's primary_language ("unknown": blank query)
\*   pattern    matches of intent_patterns per intent type, in dict order
\*   ext        the intent type whose file_type_patterns entry matches, or 0
\*   tokens     the tokens left by _remove_stop_words
\*   domain     the tokens that _extract_domain_keywords finds
\*   complex    len(query.split()) > 5 or _is_complex_query(query)
\*   time_rule  what the time rule table finds: "none", the handler of the
\*              first matching pattern that takes no argument ("today",
\*              "last_week", ...), or "parametrised"
\* the keys of IntentAnalyzer.intent_patterns, in dict order
PatternIntents ==
    <<"document_search", "image_search", "audio_search", "video_search">>

\* the values of IntentType
IntentTypeValues ==
    Range(PatternIntents) \cup {"mixed_search", "semantic_search",
                                "factual_search", "unknown"}

\* ------------------------------------------------------- adapter replies
\* What generate_response hands an analyzer: it raises, returns an error
\* response, or returns a success response with content.  Content is a string:
\* either JSON text, known by the value json.loads gives (an object with its
\* fields, or an array), or text that is not JSON, known by its words in order.
Raises == [kind |-> "raise"]
ErrorReply == [kind |-> "error"]
JsonObject(fields) ==
    [kind |-> "content", format |-> "json", type |-> "object", fields |-> fields]
JsonArray == [kind |-> "content", format |-> "json", type |-> "array"]
Text(words) == [kind |-> "content", format |-> "text", words |-> words]

IsJson(reply) == reply.kind = "content" /\ reply.format = "json"
IsText(reply) == reply.kind = "content" /\ reply.format = "text"
Field(fields, name, default) ==
    IF name \in DOMAIN fields THEN fields[name] ELSE default

\* ------------------------------------------------------ intent analyzer
\* intent_scores after both loops of _rule_based_intent_analysis: the scored
\* intent types in insertion order (pattern matches first, then a type that
\* only its file extension brought in)
IntentScores(q) ==
    LET byPattern == SelectSeq(<<1, 2, 3, 4>>, LAMBDA c : q.pattern[c] > 0)
        order == IF q.ext # 0 /\ q.pattern[q.ext] = 0
                 THEN Append(byPattern, q.ext)
                 ELSE byPattern
    IN  [i \in 1..Len(order) |->
            [intent |-> order[i],
             score |-> q.pattern[order[i]] + (IF q.ext = order[i] THEN 1 ELSE 0)]]

RECURSIVE SumScores(_)
SumScores(s) == IF s = <<>> THEN 0 ELSE s[1].score + SumScores(Tail(s))

\* max(intent_scores.items(), key=score): the first of the highest scored
FirstMax(s) ==
    CHOOSE i \in 1..Len(s) :
        /\ \A j \in 1..Len(s) : s[j].score <= s[i].score
        /\ \A j \in 1..(i - 1) : s[j].score < s[i].score

QueryIntent(intent_type, confidence, keywords, file_types, language) ==
    [kind |-> "intent", intent_type |-> intent_type, confidence |-> confidence,
     keywords |-> keywords, file_types |-> file_types, language |-> language]

_rule_based_intent_analysis(q) ==
    LET s == IntentScores(q) IN
    QueryIntent(
        IF s = <<>> THEN "document_search" ELSE PatternIntents[s[FirstMax(s)].intent],
        IF s = <<>> THEN Pct(30)
        ELSE Min2(Ratio(s[FirstMax(s)].score, Max2(SumScores(s), 1)), Pct(100)),
        {PatternIntents[c] : c \in {c \in 1..4 : q.pattern[c] > 0}},
        IF q.ext = 0 THEN {} ELSE {PatternIntents[q.ext]},
        IF q.language = "unknown" THEN None ELSE <<q.language>>)

\* QueryIntent(**result_data) passes validation
ValidIntentData(reply) ==
    /\ reply.type = "object"
    /\ {"intent_type", "confidence"} \subseteq DOMAIN reply.fields
    /\ reply.fields.intent_type \in IntentTypeValues
    /\ reply.fields.confidence \in 0..Pct(100)

\* _parse_llm_text_response: the intent read off the words of the content
_parse_llm_text_response(reply) ==
    QueryIntent(
        IF "image" \in Range(reply.words) THEN "image_search"
        ELSE IF "audio" \in Range(reply.words) THEN "audio_search"
        ELSE IF "video" \in Range(reply.words) THEN "video_search"
        ELSE "document_search",
        Pct(70), {"fenxi", "chaxun"}, {}, <<"zh">>)

\* _llm_intent_analysis, given what the adapter call came to
_llm_intent_analysis(q, reply) ==
    IF IsJson(reply) /\ ValidIntentData(reply)
    THEN QueryIntent(reply.fields.intent_type, reply.fields.confidence,
                     Field(reply.fields, "keywords", {}),
                     Field(reply.fields, "file_types", {}),
                     Field(reply.fields, "language", None))
    ELSE IF IsText(reply)
    THEN _parse_llm_text_response(reply)
    ELSE _rule_based_intent_analysis(q)

\* _combine_intent_results that always takes the second-tier result
CombineTakesLlm(rule_based, llm_based) == llm_based

_combine_intent_results(rule_based, llm_based) ==
    IF llm_based.confidence > rule_based.confidence
    THEN llm_based
    ELSE QueryIntent(
            IF llm_based.confidence > Pct(70)
            THEN llm_based.intent_type ELSE rule_based.intent_type,
            Max2(rule_based.confidence, llm_based.confidence),
            rule_based.keywords \cup llm_based.keywords,
            rule_based.file_types \cup llm_based.file_types,
            IF llm_based.language # None
            THEN llm_based.language ELSE rule_based.language)

\* whether analyze_intent goes on to the adapter
IntentNeedsAdapter(q) == _rule_based_intent_analysis(q).confidence < Pct(80)

\* analyze_intent: <<raised, value>>
analyze_intent(q, reply) ==
    IF IntentNeedsAdapter(q)
    THEN [raised |-> FALSE,
          value |-> _combine_intent_results(_rule_based_intent_analysis(q),
                                            _llm_intent_analysis(q, reply))]
    ELSE [raised |-> FALSE, value |-> _rule_based_intent_analysis(q)]

\* ---------------------------------------------------- keyword extractor
\* the tokens of the model's queries; len(token) > 2 for the long ones
ShortTokens == {"t1", "t2", "t3", "t4", "t5", "t6"}
LongTokens == {"tok7", "tok8", "tok9", "tok10", "tok11"}
TokenLong(t) == Len(t) > 2

\* the distinct members of a sequence, each at its first place
FirstOccurrences(s) ==
    LET firsts == SelectSeq([i \in 1..Len(s) |-> i],
                            LAMBDA i : \A j \in 1..(i - 1) : s[j] # s[i])
    IN  [p \in 1..Len(firsts) |-> s[firsts[p]]]

CountOf(s, x) == Cardinality({i \in 1..Len(s) : s[i] = x})

\* _calculate_keyword_scores: the scores dict, in insertion order
_calculate_keyword_scores(tokens, domain_keywords) ==
    LET distinct == FirstOccurrences(tokens)
        base(t) == Ratio(CountOf(tokens, t), Len(tokens))
        boosted(t) == IF t \in domain_keywords THEN (base(t) * 3) \div 2 ELSE base(t)
        longer(t) == IF TokenLong(t) THEN (boosted(t) * 6) \div 5 ELSE boosted(t)
    IN  [p \in 1..Len(distinct) |->
            [keyword |-> distinct[p], score |-> Min2(longer(distinct[p]), Pct(100))]]

\* an extraction result: keyword_scores is the dict in its order; keywords is
\* the list of keywords, each <<keyword>> or, from the adapter, <<keyword, score>>
Extraction(keywords, keyword_scores, method) ==
    [kind |-> "keywords", keywords |-> keywords,
     keyword_scores |-> keyword_scores, method |-> method]

Plain(scored) == [i \in 1..Len(scored) |-> <<scored[i].keyword>>]

_rule_based_extraction(q) ==
    LET top_keywords == SortedDesc(_calculate_keyword_scores(q.tokens, q.domain))
    IN  Extraction(Plain(top_keywords), top_keywords, "rule_based")

\* _parse_llm_text_keywords: the first ten words of the content
_parse_llm_text_keywords(reply) ==
    LET words == Take(reply.words, 10) IN
    Extraction([i \in 1..Len(words) |-> <<words[i]>>],
               [i \in 1..Len(words) |-> [keyword |-> words[i], score |-> Pct(70)]],
               "llm_text_fallback")

\* _llm_extraction, given what the adapter call came to.  On a JSON value that
\* is no object, result_data['method'] = ... raises and the except branch
\* leads to the rule-based extraction.
_llm_extraction(q, reply) ==
    IF IsJson(reply) /\ reply.type = "object"
    THEN Extraction(Field(reply.fields, "keywords", <<>>), <<>>, "llm_based")
    ELSE IF IsText(reply)
    THEN _parse_llm_text_keywords(reply)
    ELSE _rule_based_extraction(q)

\* the second loop of _combine_extraction_results: the adapter's keywords are
\* added to combined_scores one by one
RECURSIVE AddLlmScores(_, _)
AddLlmScores(combined, keywords) ==
    IF keywords = <<>> THEN combined
    ELSE LET e == Head(keywords)
             keyword == e[1]
             score == IF Len(e) = 2 THEN e[2] ELSE Pct(50)
             at == {i \in 1..Len(combined) : combined[i].keyword = keyword}
             next == IF at = {}
                     THEN Append(combined, [keyword |-> keyword, score |-> score])
                     ELSE [i \in 1..Len(combined) |->
                              IF i \in at
                              THEN [keyword |-> keyword,
                                    score |-> Max2(combined[i].score, score)]
                              ELSE combined[i]]
         IN  AddLlmScores(next, Tail(keywords))

\* _combine_extraction_results without the limit
CombineUnlimited(rule_based, llm_based, max_keywords) ==
    LET weighted == [i \in 1..Len(rule_based.keyword_scores) |->
                        [keyword |-> rule_based.keyword_scores[i].keyword,
                         score |-> (rule_based.keyword_scores[i].score * 7) \div 10]]
        top_keywords == SortedDesc(AddLlmScores(weighted, llm_based.keywords))
    IN  Extraction(Plain(top_keywords), top_keywords, "combined")

_combine_extraction_results(rule_based, llm_based, max_keywords) ==
    LET weighted == [i \in 1..Len(rule_based.keyword_scores) |->
                        [keyword |-> rule_based.keyword_scores[i].keyword,
                         score |-> (rule_based.keyword_scores[i].score * 7) \div 10]]
        sorted_keywords == SortedDesc(AddLlmScores(weighted, llm_based.keywords))
        top_keywords == Take(sorted_keywords, max_keywords)
    IN  Extraction(Plain(top_keywords), top_keywords, "combined")

\* whether extract_keywords goes on to the adapter
KeywordsNeedAdapter(q) == q.complex

\* extract_keywords(query, language) with the default max_keywords
extract_keywords(q, reply) ==
    IF KeywordsNeedAdapter(q)
    THEN [raised |-> FALSE,
          value |-> _combine_extraction_results(_rule_based_extraction(q),
                                                _llm_extraction(q, reply),
                                                MaxKeywords)]
    ELSE [raised |-> FALSE, value |-> _rule_based_extraction(q)]

\* ----------------------------------------------------------- time parser
TimeRange(start_date, end_date, confidence) ==
    [kind |-> "time", start_date |-> start_date, end_date |-> end_date,
     confidence |-> confidence]
NoValue == [kind |-> "none"]

\* date.weekday(): Monday is 0
weekday(day) == day % 7

\* the handlers of the relative patterns that take no argument, applied to
\* self.now: the lambdas of today, yesterday and tomorrow, _get_this_week,
\* _get_last_week, _get_next_week
RelativeHandlers ==
    {"today", "yesterday", "tomorrow", "this_week", "last_week", "next_week"}

Handler(name, day) ==
    LET start_of_this_week == day - weekday(day) IN
    CASE name = "today"     -> <<day, day>>
      [] name = "yesterday" -> <<day - 1, day - 1>>
      [] name = "tomorrow"  -> <<day + 1, day + 1>>
      [] name = "this_week" -> <<start_of_this_week, start_of_this_week + 6>>
      [] name = "last_week" -> <<start_of_this_week - 7, start_of_this_week - 1>>
      [] name = "next_week" -> <<start_of_this_week + 7, start_of_this_week + 13>>

\* _rule_based_parsing.  The handler of a pattern without a group is called
\* and reads self.now.  The handler of a parametrised pattern takes the match
\* but is called without it: the TypeError is caught and the loop goes on, to
\* no result.
_rule_based_parsing(q) ==
    IF q.time_rule \in RelativeHandlers
    THEN LET dates == Handler(q.time_rule, parser_now)
         IN  TimeRange(dates[1], dates[2], Pct(90))
    ELSE NoValue

\* _llm_parsing, given what the adapter call came to: a TimeRange when the
\* content is a JSON object with start_date and end_date that parse and a
\* confidence within [0, 1]; every failure on the way is caught
_llm_parsing(q, reply) ==
    IF /\ IsJson(reply) /\ reply.type = "object"
       /\ Field(reply.fields, "found", TRUE)
       /\ {"start_date", "end_date"} \subseteq DOMAIN reply.fields
       /\ Field(reply.fields, "confidence", Pct(80)) \in 0..Pct(100)
    THEN TimeRange(reply.fields.start_date, reply.fields.end_date,
                   Field(reply.fields, "confidence", Pct(80)))
    ELSE NoValue

TimeNeedsAdapter(q) == _rule_based_parsing(q) = NoValue

parse_time_expression(q, reply) ==
    IF TimeNeedsAdapter(q)
    THEN [raised |-> FALSE, value |-> _llm_parsing(q, reply)]
    ELSE [raised |-> FALSE, value |-> _rule_based_parsing(q)]

\* -------------------------------------------------------- query expander
\* _dictionary_expansion reads include_translations, a name that is neither a
\* parameter nor a variable of that method nor a global: the NameError leaves
\* the method, and expand_query, before the adapter is ever called
_dictionary_expansion(q) == [raised |-> TRUE, value |-> NoValue]

ExpansionNeedsAdapter(q) == ~_dictionary_expansion(q).raised /\ q.complex

expand_query(q, reply) == _dictionary_expansion(q)

\* ================================================== query understanding: text
\* A query text is its sequence of characters, each a string of length one.
\* What the rule passes find in a text (the fields of a query, above) is
\* computed here as the code computes it.  The texts of the model are written
\* with nine Chinese characters, each set down as one capital letter:
\*   C chan3 (U+4EA7)   N pin3 (U+54C1)   S she4 (U+8BBE)   J ji4 (U+8BA1)
\*   H shang4 (U+4E0A)  Z zhou1 (U+5468)  U zui4 (U+6700)   K jin4 (U+8FD1)
\*   D tian1 (U+5929)
\* so that "CNSJ" is the word for product design, "HZ" last week and "UK3D"
\* the last 3 days; with the letters below, the capitals P and T, the digit 3,
\* the full stop and the space.  Of the Chinese terms in the tables of the
\* code, the ones that these characters spell are listed; no other can occur
\* in a text of the model.
ChineseChars == {"C", "N", "S", "J", "H", "Z", "U", "K", "D"}
LowerChars == {"a", "c", "e", "g", "i", "m", "p", "s", "t", "u"}
UpperChars == {"P", "T"}
EnglishChars == LowerChars \cup UpperChars
NumericChars == {"3"}
WordChars == ChineseChars \cup EnglishChars \cup NumericChars

\* str.lower, one character
lower_char(c) == CASE c = "P" -> "p" [] c = "T" -> "t" [] OTHER -> c
\* str.lower
lower(text) == [i \in 1..Len(text) |-> lower_char(text[i])]

\* the string of a sequence of characters
RECURSIVE Str(_)
Str(chars) == IF chars = <<>> THEN "" ELSE chars[1] \o Str(Tail(chars))

\* re.findall(r'[set]+', text): the maximal runs of characters of a set, in order
Runs(text, set) ==
    LET starts == {i \in 1..Len(text) :
                      text[i] \in set /\ (i = 1 \/ text[i - 1] \notin set)}
        end(i) == CHOOSE j \in i..Len(text) :
                      /\ \A k \in i..j : text[k] \in set
                      /\ j = Len(text) \/ text[j + 1] \notin set
        nth(p) == CHOOSE i \in starts : Cardinality({j \in starts : j < i}) = p - 1
    IN  [p \in 1..Cardinality(starts) |-> Str(SubSeq(text, nth(p), end(nth(p))))]

\* re.search(term, text) for a term without metacharacters
Contains(text, term) ==
    \E i \in 1..(Len(text) - Len(term) + 1) :
        Str(SubSeq(text, i, i + Len(term) - 1)) = term

\* query.split(): the runs of characters that are not whitespace
split(text) == Runs(text, WordChars \cup {"."})

\* re.findall(r'\b(t1|t2|...)\b', text): a match starts and ends at a word
\* boundary, and the terms are made of word characters, so it is a whole run
\* of word characters
WordMatches(text, terms) ==
    SelectSeq(Runs(text, WordChars), LAMBDA run : run \in terms)

\* ----------------------------------------------------- language detector
\* LanguageDetector.chinese_words and english_words
ChineseCommonWords ==
    {"H"}
EnglishCommonWords ==
    {"the", "be", "to", "of", "and", "a", "in", "that", "have", "i", "it", "for",
     "not", "on", "with", "he", "as", "you", "do", "at", "this", "but", "his",
     "by", "from", "they", "we", "say", "her", "she", "or", "an", "will", "my",
     "one", "all", "would", "there", "their", "what", "so", "up", "out", "if",
     "about", "who", "get", "which", "go", "me", "when", "make", "can", "like",
     "time", "no", "just", "him", "know", "take", "people", "into", "year",
     "your", "good", "some", "could", "them", "see", "other", "than", "then",
     "now", "look", "only", "come", "its", "over", "think", "also", "back"}

CountIn(text, set) == Cardinality({i \in 1..Len(text) : text[i] \in set})

\* _mixed_language_detection: is_likely_mixed, a run of letters and a run of
\* Chinese characters side by side or with only spaces between them
is_likely_mixed(text) ==
    \E i \in 1..Len(text) : \E j \in (i + 1)..Len(text) :
        /\ \/ text[i] \in EnglishChars /\ text[j] \in ChineseChars
           \/ text[i] \in ChineseChars /\ text[j] \in EnglishChars
        /\ \A k \in (i + 1)..(j - 1) : text[k] = " "

\* detect_language: primary_language.  The ratios are compared as products of
\* whole numbers: each score times 10 * total * words * chinese * english.
detect_language(text) ==
    LET total == CountIn(text, WordChars \cup {"."})
        chinese_count == CountIn(text, ChineseChars)
        english_count == CountIn(text, EnglishChars)
        chinese_words == Runs(text, ChineseChars)
        english_words == Runs(lower(text), EnglishChars)
        words == Max2(Len(chinese_words) + Len(english_words), 1)
        chinese == Max2(Len(chinese_words), 1)
        english == Max2(Len(english_words), 1)
        chinese_common ==
            Len(SelectSeq(chinese_words, LAMBDA w : w \in ChineseCommonWords))
        english_common ==
            Len(SelectSeq(english_words, LAMBDA w : w \in EnglishCommonWords))
        is_mixed ==
            \/ is_likely_mixed(text)
            \/ 5 * chinese_count > total /\ 5 * english_count > total
            \/ 5 * Len(chinese_words) > words /\ 5 * Len(english_words) > words
        chinese_score ==
            IF is_mixed
            THEN 6 * chinese_count * words * chinese * english
                 + 3 * Len(chinese_words) * total * chinese * english
                 + chinese_common * total * words * english
            ELSE chinese_count
        english_score ==
            IF is_mixed
            THEN 6 * english_count * words * chinese * english
                 + 3 * Len(english_words) * total * chinese * english
                 + english_common * total * words * chinese
            ELSE english_count
    IN  IF total = 0 THEN "unknown"
        ELSE IF chinese_score > english_score THEN "zh" ELSE "en"
\* ------------------------------------------------ intent analyzer: tables
\* IntentAnalyzer.intent_patterns: the terms of the four patterns of each
\* intent type, in dict order
IntentPatterns ==
    <<<<{"pdf", "doc", "txt", "word", "excel"},
        {"document", "file", "text", "pdf", "doc", "word", "excel", "paper", "article"},
        {},
        {"report", "paper", "contract", "proposal", "plan", "summary"}>>,
      <<{"jpeg", "jpg", "png", "gif"},
        {"image", "picture", "photo", "screenshot", "drawing", "graphic", "jpeg",
         "jpg", "png", "gif"},
        {},
        {"screenshot", "photo", "album", "wallpaper", "icon", "avatar"}>>,
      <<{"mp3", "wav", "flac"},
        {"audio", "music", "song", "recording", "sound", "mp3", "wav", "flac", "podcast"},
        {},
        {"podcast", "audiobook", "ringtone"}>>,
      <<{"mp4", "avi", "mkv"},
        {"video", "movie", "film", "animation", "recording", "mp4", "avi", "mkv", "clip"},
        {},
        {"short", "tutorial", "demo", "meeting_recording"}>>>>

\* IntentAnalyzer.file_type_patterns: the extensions of each intent type
FileTypePatterns ==
    <<{"pdf", "doc", "docx", "txt", "rtf", "odt", "xls", "xlsx", "ppt", "pptx"},
      {"jpg", "jpeg", "png", "gif", "bmp", "tiff", "svg", "webp"},
      {"mp3", "wav", "flac", "aac", "ogg", "wma", "m4a"},
      {"mp4", "avi", "mkv", "mov", "wmv", "flv", "webm", "m4v"}>>

\* the first loop of _rule_based_intent_analysis: the matches of the patterns
\* of an intent type in query.lower()
PatternScore(text, c) ==
    LET n(k) == Len(WordMatches(lower(text), IntentPatterns[c][k]))
    IN  n(1) + n(2) + n(3) + n(4)

\* re.search(r'\.(e1|e2|...)$', query_lower)
EndsWithExtension(text, extensions) ==
    \E i \in 1..(Len(text) - 1) :
        /\ text[i] = "."
        /\ Str(SubSeq(text, i + 1, Len(text))) \in extensions

\* the intent type whose file_type_patterns entry matches, or 0
ExtensionIntent(text) ==
    IF \E c \in 1..4 : EndsWithExtension(lower(text), FileTypePatterns[c])
    THEN CHOOSE c \in 1..4 : EndsWithExtension(lower(text), FileTypePatterns[c])
    ELSE 0

\* ----------------------------------------------- keyword extractor: text
\* KeywordExtractor.stop_words
StopWordsZh ==
    {"H"}
StopWordsEn ==
    {"the", "a", "an", "and", "or", "but", "in", "on", "at", "to", "for", "of",
     "with", "by", "is", "are", "was", "were", "be", "been", "being", "have",
     "has", "had", "do", "does", "did", "will", "would", "could", "should",
     "may", "might", "can", "shall", "must", "i", "you", "he", "she", "it", "we",
     "they", "me", "him", "her", "us", "them", "my", "your", "his", "its", "our",
     "their", "this", "that", "these", "those", "what", "which", "who", "when",
     "where", "why", "how", "find", "search", "look", "get", "show", "give",
     "want", "need", "help"}

\* KeywordExtractor.domain_patterns
DomainTerms ==
    {"pdf", "doc", "docx", "txt", "rtf", "odt", "xls", "xlsx", "ppt", "pptx",
     "csv", "html", "xml", "json", "jpg", "jpeg", "png", "gif", "bmp", "tiff",
     "svg", "webp", "ico", "mp3", "wav", "flac", "aac", "ogg", "wma", "m4a",
     "mp4", "avi", "mkv", "mov", "wmv", "flv", "webm", "api", "sdk", "framework",
     "library", "database", "algorithm", "function", "method", "class", "object",
     "server", "client", "frontend", "backend", "cache", "queue", "middleware",
     "report", "proposal", "contract", "invoice", "budget", "schedule",
     "meeting", "presentation"}

_is_chinese_char(char) == char \in ChineseChars

\* _tokenize_query for 'zh': character by character; a Chinese character joins
\* the token before it when that token has one character
RECURSIVE TokenizeZh(_, _)
TokenizeZh(query, tokens) ==
    IF query = <<>> THEN tokens
    ELSE LET char == Head(query) IN
         TokenizeZh(Tail(query),
            IF char = " " THEN tokens
            ELSE IF /\ Len(tokens) > 0
                    /\ Len(tokens[Len(tokens)]) = 1
                    /\ _is_chinese_char(char)
                 THEN [tokens EXCEPT ![Len(tokens)] = @ \o char]
                 ELSE Append(tokens, char))

\* _tokenize_query: otherwise re.findall(r'\b\w+\b', query)
_tokenize_query(query, language) ==
    IF language = "zh" THEN TokenizeZh(query, <<>>) ELSE Runs(query, WordChars)

\* _remove_stop_words
_remove_stop_words(tokens, language) ==
    LET stop_words == (IF language \in {"zh", "mixed"} THEN StopWordsZh ELSE {})
                      \cup (IF language \in {"en", "mixed"} THEN StopWordsEn ELSE {})
    IN  SelectSeq(tokens, LAMBDA token : token \notin stop_words /\ Len(token) > 1)

\* _extract_domain_keywords
_extract_domain_keywords(query) == Range(WordMatches(query, DomainTerms))

\* _is_complex_query: complex_indicators, then more than eight words
ComplexIndicators ==
    {"what", "how", "why", "where", "which", "when",
     "and", "or", "but", "however", "also", "meanwhile"}
_is_complex_query(text) ==
    \/ \E indicator \in ComplexIndicators : Contains(lower(text), indicator)
    \/ Len(split(text)) > 8

\* ------------------------------------------------------ time parser: text
\* TimeParser.time_patterns['relative'], 'zh' and 'en': the patterns whose
\* handler takes no argument, in list order, with their handlers (the month
\* and year patterns, which need a calendar, are in no text of the model)
RelativeTerms(lang) ==
    CASE lang = "zh" -> <<<<"HZ", "last_week">>>>
      [] lang = "en" -> <<<<"today", "today">>, <<"yesterday", "yesterday">>,
                          <<"tomorrow", "tomorrow">>, <<"this week", "this_week">>,
                          <<"last week", "last_week">>, <<"next week", "next_week">>>>
      [] OTHER -> <<>>

\* the patterns whose handler takes the match: what stands before (\d+) and
\* what has to follow it
ParametrisedPatterns ==
    {<<"UK", {"D", "Z"}>>,
     <<"recent ", {" day", " week", " month", " year"}>>,
     <<"past ", {" day", " week", " month"}>>,
     <<"last ", {" day", " week", " month"}>>}

ParametrisedMatch(text, pattern) ==
    \E i \in 1..Len(text) :
        LET j == i + Len(pattern[1]) IN
        /\ j <= Len(text)
        /\ Str(SubSeq(text, i, j - 1)) = pattern[1]
        /\ \E k \in j..Len(text) :
              /\ \A d \in j..k : text[d] \in NumericChars
              /\ \E unit \in pattern[2] :
                    /\ k + Len(unit) <= Len(text)
                    /\ Str(SubSeq(text, k + 1, k + Len(unit))) = unit

\* what the loop over the rule table of _rule_based_parsing finds in a text:
\* for lang in [language, 'zh', 'en'], the first pattern in list order that
\* matches and whose handler returns
TimeRule(text, language) ==
    LET table == RelativeTerms(language) \o RelativeTerms("zh") \o RelativeTerms("en")
        found == {i \in 1..Len(table) : Contains(lower(text), table[i][1])}
    IN  IF found # {}
        THEN table[CHOOSE i \in found : \A j \in found : i <= j][2]
        ELSE IF \E pattern \in ParametrisedPatterns :
                    ParametrisedMatch(lower(text), pattern) THEN "parametrised"
        ELSE "none"

\* the query that the analyzers see in a text
Features(text) ==
    LET language == detect_language(text) IN
    [language |-> language,
     pattern |-> [c \in 1..4 |-> PatternScore(text, c)],
     ext |-> ExtensionIntent(text),
     tokens |-> _remove_stop_words(_tokenize_query(lower(text), language), language),
     domain |-> _extract_domain_keywords(lower(text)),
     complex |-> Len(split(text)) > 5 \/ _is_complex_query(text),
     time_rule |-> TimeRule(text, language)]

\* ============================================ query understanding: service
\* The analyzers of a request, in the order understand_query appends their
\* tasks and _process_component_results their names.
ComponentOrder == <<"intent", "keywords", "time", "expansion">>

Enabled(request, name) ==
    CASE name = "intent"    -> request.analyze_intent
      [] name = "keywords"  -> request.extract_keywords
      [] name = "time"      -> request.parse_time
      [] name = "expansion" -> request.expand_query

\* the names of the enabled analyzers, in the reverse order
NamesReversed(request) ==
    SelectSeq(<<"expansion", "time", "keywords", "intent">>,
              LAMBDA name : Enabled(request, name))

\* component_names of _process_component_results, and the order of the tasks
ComponentNames(request) ==
    SelectSeq(ComponentOrder, LAMBDA name : Enabled(request, name))

\* whether the analyzer's fast pass leaves the query to the adapter
NeedsAdapter(name, q) ==
    CASE name = "intent"    -> IntentNeedsAdapter(q)
      [] name = "keywords"  -> KeywordsNeedAdapter(q)
      [] name = "time"      -> TimeNeedsAdapter(q)
      [] name = "expansion" -> ExpansionNeedsAdapter(q)

\* the analyzer's operation, given what its adapter call (if any) came to
Analyze(name, q, reply) ==
    CASE name = "intent"    -> analyze_intent(q, reply)
      [] name = "keywords"  -> extract_keywords(q, reply)
      [] name = "time"      -> parse_time_expression(q, reply)
      [] name = "expansion" -> expand_query(q, reply)

\* QueryIntent's validate_language: a code of two or three characters
LanguageCodeValid(language) == language \in {"zh", "en"}

\* _analyze_intent_with_retry, _extract_keywords_with_retry,
\* _parse_time_with_retry, _expand_query_with_retry: what the task returns to
\* gather.  The fallback intent is built with the detected language, and
\* QueryIntent's validator raises on "unknown".
WithRetry(name, outcome, language) ==
    IF ~outcome.raised THEN outcome
    ELSE CASE name = "intent" ->
                IF LanguageCodeValid(language)
                THEN [raised |-> FALSE,
                      value |-> QueryIntent("document_search", Pct(30), {}, {},
                                            <<language>>)]
                ELSE [raised |-> TRUE, value |-> NoValue]
           [] name = "keywords" ->
                [raised |-> FALSE, value |-> Extraction(<<>>, <<>>, "fallback")]
           [] name = "time" -> [raised |-> FALSE, value |-> NoValue]
           [] name = "expansion" -> [raised |-> FALSE, value |-> NoValue]

\* _process_component_results: result['components'], the i-th name with the
\* i-th result of gather
_process_component_results(request, component_results) ==
    LET names == ComponentNames(request) IN
    [name \in Range(names) |->
        LET r == component_results[CHOOSE i \in 1..Len(names) : names[i] = name]
        IN  IF r.raised THEN [kind |-> "error"] ELSE r.value]

\* result['components'].get(name, {})
Component(components, name) ==
    IF name \in DOMAIN components THEN components[name] ELSE [kind |-> "absent"]

\* the four arguments of min(...) in _create_parsed_query
IntentContribution(c) == IF c.kind = "intent" THEN c.confidence ELSE Pct(50)
KeywordContribution(c) ==
    IF c.kind = "keywords" /\ c.method = "llm_based" THEN Pct(80) ELSE Pct(50)
TimeContribution(c) ==
    IF c.kind = "time" THEN c.confidence
    ELSE IF c.kind = "error" THEN Pct(50) ELSE Pct(100)
ExpansionContribution(c) ==
    IF c.kind = "expansion" THEN c.expansion_confidence
    ELSE IF c.kind = "error" THEN Pct(50) ELSE Pct(100)

\* _create_parsed_query: the fused interpretation; its confidence is the
\* minimum of the four terms
_create_parsed_query(components, language) ==
    LET intent == Component(components, "intent")
        keywords == Component(components, "keywords")
        time_info == Component(components, "time")
        expansion == Component(components, "expansion")
    IN  [intent |-> intent,
         search_terms |->
            (IF keywords.kind = "keywords"
             THEN {e[1] : e \in Range(keywords.keywords)} ELSE {})
            \cup (IF intent.kind = "intent" THEN intent.keywords ELSE {}),
         language |-> language,
         confidence |->
            Min2(Min2(IntentContribution(intent), KeywordContribution(keywords)),
                 Min2(TimeContribution(time_info), ExpansionContribution(expansion)))]

\* the result of understand_query on a cache miss
Understood(request, language, component_results) ==
    LET components == IF ComponentNames(request) = <<>>
                      THEN <<>>
                      ELSE _process_component_results(request, component_results)
    IN  [success |-> TRUE, cached |-> FALSE, language |-> language,
         components |-> components,
         parsed_query |-> _create_parsed_query(components, language)]

\* ------------------------------------------------------ service: state
NoReply == [kind |-> "nocall"]
NoOutcome == [raised |-> FALSE, value |-> NoValue]

\* an analyzer's task: "off" (not enabled), "pending", "calling" (awaiting the
\* adapter), "done"; raised: the analyzer's operation raised to its caller;
\* returned: what the task handed to gather
IdleAnalyzer ==
    [pc |-> "off", reply |-> NoReply, raised |-> FALSE, returned |-> NoOutcome,
     adapter_calls |-> 0]

\* ------------------------------------------------------- service: inputs
IntentFeatures ==
    {<<<<0, 0, 0, 0>>, 0>>, <<<<1, 0, 0, 0>>, 0>>, <<<<0, 1, 1, 0>>, 0>>,
     <<<<3, 1, 0, 0>>, 0>>, <<<<0, 0, 0, 0>>, 4>>, <<<<0, 1, 0, 0>>, 1>>}

TokenFeatures ==
    {<<<<"t1", "tok7", "t1">>, {"tok7"}>>,
     <<<<"t1", "t2", "t3", "t4", "t5", "t6", "tok7", "tok8", "tok9", "tok10",
         "tok11">>, {}>>}

BlankQuery ==
    [language |-> "unknown", pattern |-> <<0, 0, 0, 0>>, ext |-> 0,
     tokens |-> <<>>, domain |-> {}, complex |-> FALSE, time_rule |-> "none"]

Queries ==
    {BlankQuery} \cup
    {[language |-> "zh", pattern |-> i[1], ext |-> i[2], tokens |-> t[1],
      domain |-> t[2], complex |-> c, time_rule |-> r] :
        i \in IntentFeatures, t \in TokenFeatures, c \in BOOLEAN,
        r \in {"none", "last_week", "parametrised"}}

Requests ==
    [query : Queries, options : {<<>>}, analyze_intent : BOOLEAN,
     extract_keywords : BOOLEAN, parse_time : BOOLEAN, expand_query : BOOLEAN]

\* what the adapter may hand each analyzer
IntentReplies ==
    {Raises, ErrorReply, JsonArray,
     JsonObject([intent_type |-> "video_search", confidence |-> Pct(90),
                 keywords |-> {"clip"}]),
     JsonObject([intent_type |-> "audio_search", confidence |-> Pct(20)]),
     JsonObject([intent_type |-> "video_search", confidence |-> Pct(150)]),
     Text(<<"an", "image">>), Text(<<"hello">>)}

KeywordReplies ==
    {Raises, ErrorReply, JsonArray,
     JsonObject([keywords |-> <<<<"llm", Pct(90)>>, <<"t1", Pct(20)>>>>]),
     JsonObject([query_type |-> "document_search"]),
     Text(<<"alpha", "beta">>)}

TimeReplies ==
    {Raises, ErrorReply, JsonArray,
     JsonObject([start_date |-> -7, end_date |-> -1, confidence |-> Pct(95)]),
     JsonObject([found |-> FALSE, confidence |-> 0]),
     Text(<<"last", "week">>)}

Replies(name) ==
    CASE name = "intent"    -> IntentReplies
      [] name = "keywords"  -> KeywordReplies
      [] name = "time"      -> TimeReplies
      [] name = "expansion" -> {Raises, ErrorReply}

\* QueryUnderstandingService._generate_cache_key: query and options
_service_cache_key(request) == <<request.query, request.options>>

CurrentRequest == requests[call_no]

\* understand_query up to asyncio.gather: the orchestration cache is checked,
\* the language is detected and one task per enabled analyzer is created
UnderstandBegin ==
    /\ u_pc \in {"idle", "returned"}
    /\ call_no < Len(requests)
    /\ call_no' = call_no + 1
    /\ LET request == requests[call_no + 1]
           key == _service_cache_key(request)
       IN  IF service_caching /\ key \in DOMAIN service_cache
           THEN /\ service_cache' = [service_cache EXCEPT ![key].cached = TRUE]
                /\ interpretation' = <<service_cache'[key]>>
                /\ u_pc' = "returned"
                /\ analyzer' = [name \in Range(ComponentOrder) |-> IdleAnalyzer]
           ELSE /\ analyzer' = [name \in Range(ComponentOrder) |->
                                  IF Enabled(request, name)
                                  THEN [IdleAnalyzer EXCEPT !.pc = "pending"]
                                  ELSE IdleAnalyzer]
                /\ interpretation' = None
                /\ u_pc' = "gathering"
                /\ UNCHANGED service_cache
    /\ UNCHANGED <<requests, service_caching>>
    /\ UNCHANGED nonServiceVars

\* a wrapper that runs its analyzer once more after an error response
FinishedOrRerun(name, reply, outcome, calls) ==
    IF reply = [kind |-> "error"] /\ calls < 2
    THEN [pc |-> "pending", reply |-> reply, raised |-> FALSE,
          returned |-> NoOutcome, adapter_calls |-> calls]
    ELSE [pc |-> "done", reply |-> reply, raised |-> outcome.raised,
          returned |-> WithRetry(name, outcome, CurrentRequest.query.language),
          adapter_calls |-> calls]

\* the task of an analyzer once its operation is over with the given outcome
Finished(name, reply, outcome, calls) ==
    [pc |-> "done", reply |-> reply, raised |-> outcome.raised,
     returned |-> WithRetry(name, outcome, CurrentRequest.query.language),
     adapter_calls |-> calls]

\* An analyzer's task runs up to its first await: the fast pass, then either
\* the result or the call of the adapter's generate_response.
AnalyzerRun(name) ==
    /\ u_pc = "gathering"
    /\ analyzer[name].pc = "pending"
    /\ LET q == CurrentRequest.query IN
       analyzer' = [analyzer EXCEPT ![name] =
                      IF NeedsAdapter(name, q)
                      THEN [@ EXCEPT !.pc = "calling", !.adapter_calls = @ + 1]
                      ELSE Finished(name, NoReply, Analyze(name, q, NoReply), 0)]
    /\ UNCHANGED <<requests, call_no, u_pc, interpretation, service_cache,
                   service_caching>>
    /\ UNCHANGED nonServiceVars

\* The adapter call of an analyzer is over: the analyzer merges or falls back
\* and its task returns.
AdapterReturns(name) ==
    /\ u_pc = "gathering"
    /\ analyzer[name].pc = "calling"
    /\ \E reply \in Replies(name) :
          analyzer' = [analyzer EXCEPT ![name] =
                         Finished(name, reply,
                                  Analyze(name, CurrentRequest.query, reply),
                                  @.adapter_calls)]
    /\ UNCHANGED <<requests, call_no, u_pc, interpretation, service_cache,
                   service_caching>>
    /\ UNCHANGED nonServiceVars

\* tasks of understand_query, in the order they are appended
TaskOrder(request) ==
    SelectSeq(ComponentOrder, LAMBDA name : Enabled(request, name))

\* a service that stores no result
CacheResultDropped(cache, key, result) == cache

\* a service that stores every result, whatever the size of its cache
CacheResultUnlimited(cache, key, result) == (key :> result) @@ cache

\* _cache_result
_cache_result(cache, key, result) ==
    IF Cardinality(DOMAIN cache) < ServiceCacheLimit
    THEN (key :> result) @@ cache
    ELSE cache

\* asyncio.gather returns the results of the tasks in their order; the rest of
\* understand_query processes them, fuses them, stores the result in the
\* orchestration cache and returns it
UnderstandFinish ==
    /\ u_pc = "gathering"
    /\ \A name \in Range(ComponentOrder) : analyzer[name].pc \in {"off", "done"}
    /\ LET request == CurrentRequest
           order == TaskOrder(request)
           component_results == [i \in 1..Len(order) |-> analyzer[order[i]].returned]
           result == Understood(request, request.query.language, component_results)
       IN  /\ interpretation' = <<result>>
           /\ service_cache' = IF service_caching
                               THEN _cache_result(service_cache,
                                                  _service_cache_key(request), result)
                               ELSE service_cache
    /\ u_pc' = "returned"
    /\ UNCHANGED <<requests, call_no, analyzer, service_caching>>
    /\ UNCHANGED nonServiceVars

\* the service before its first understand_query: __init__
ServiceIdle ==
    /\ requests = <<>>
    /\ call_no = 0
    /\ u_pc = "idle"
    /\ analyzer = [name \in Range(ComponentOrder) |-> IdleAnalyzer]
    /\ interpretation = None
    /\ service_cache = <<>>
    /\ service_caching = TRUE
    /\ today = 0
    /\ parser_now = today

\* ================================================================ search
\* SearchService: the vector branch, the fulltext branch and their merge.
\* Scores are in hundredths: 85 is 0.85.  A hit is the dict of one result:
\* its document id, its relevance_score and its match_type.
Hit(id, relevance_score, match_type) ==
    [id |-> id, relevance_score |-> relevance_score, match_type |-> match_type]

\* min(result['relevance_score'] * 1.2, 1.0)
BoostNoCap(relevance_score) == (relevance_score * 12) \div 10
Boost(relevance_score) == Min2((relevance_score * 12) \div 10, 100)

\* the hits of a list whose id no earlier hit of the list has
FirstOfId(hits, i) == \A j \in 1..(i - 1) : hits[j].id # hits[i].id
Ids(hits) == {hits[i].id : i \in 1..Len(hits)}

\* merged.sort(key=lambda x: x.get('relevance_score', 0), reverse=True): stable
HitRank(s, i) ==
    1 + Cardinality({j \in 1..Len(s) :
                        \/ s[j].relevance_score > s[i].relevance_score
                        \/ s[j].relevance_score = s[i].relevance_score /\ j < i})
SortHits(s) ==
    [p \in 1..Len(s) |-> s[CHOOSE i \in 1..Len(s) : HitRank(s, i) = p]]

\* the first loop of _merge_search_results changes the semantic hits it keeps
\* in place: this is the semantic list after the merge
BoostedInPlace(semantic_hits) ==
    [i \in 1..Len(semantic_hits) |->
        IF FirstOfId(semantic_hits, i)
        THEN Hit(semantic_hits[i].id, Boost(semantic_hits[i].relevance_score),
                 "hybrid")
        ELSE semantic_hits[i]]

KeptSemantic(semantic_hits) ==
    LET boosted == BoostedInPlace(semantic_hits) IN
    SelectSeq([i \in 1..Len(boosted) |-> [at |-> i, hit |-> boosted[i]]],
              LAMBDA x : FirstOfId(semantic_hits, x.at))

KeptFulltext(semantic_hits, fulltext_hits) ==
    SelectSeq([i \in 1..Len(fulltext_hits) |-> [at |-> i, hit |-> fulltext_hits[i]]],
              LAMBDA x : /\ fulltext_hits[x.at].id \notin Ids(semantic_hits)
                         /\ FirstOfId(fulltext_hits, x.at))

Unwrap(s) == [i \in 1..Len(s) |-> s[i].hit]

MergeUnsorted(semantic_hits, fulltext_hits, limit) ==
    Take(Unwrap(KeptSemantic(semantic_hits))
         \o Unwrap(KeptFulltext(semantic_hits, fulltext_hits)), limit)

\* _merge_search_results
_merge_search_results(semantic_hits, fulltext_hits, limit) ==
    Take(SortHits(Unwrap(KeptSemantic(semantic_hits))
                  \o Unwrap(KeptFulltext(semantic_hits, fulltext_hits))),
         limit)

\* what a branch returns
BranchUnavailable == [success |-> FALSE, results |-> <<>>, why |-> "message"]
BranchError == [success |-> FALSE, results |-> <<>>, why |-> "error"]
BranchHits(hits) == [success |-> TRUE, results |-> hits, why |-> "none"]
NotRun == [success |-> FALSE, results |-> <<>>, why |-> "not run"]

\* ------------------------------------------------------- search: inputs
DocIds == {"d1", "d2", "d3"}
SemanticScores == {50, 85}
FulltextScores == {60, 250}
SearchTypes == {"semantic", "fulltext", "hybrid"}

\* the hit lists a branch can return for a limit (offset 0): at most limit hits
HitLists(scores, match_type, limit) ==
    UNION {[1..n -> {Hit(id, score, match_type) : id \in DocIds, score \in scores}] :
              n \in 0..Min2(limit, MaxHits)}

\* ------------------------------------------------------ search: actions
\* search up to the first branch it awaits
SearchBegin ==
    /\ search_pc = "idle"
    /\ search_pc' = IF search_request.search_type = "fulltext"
                    THEN "fulltext" ELSE "semantic"
    /\ UNCHANGED <<search_request, faiss_index, whoosh_index, semantic_results,
                   fulltext_results, search_response, search_stats>>
    /\ UNCHANGED nonSearchVars

\* _semantic_search returns: unavailable without an index, otherwise the hits
\* of the vector index or, when the embedding or the index search raises, an
\* error result.  In hybrid mode _fulltext_search is awaited next.
SemanticReturns ==
    /\ search_pc = "semantic"
    /\ IF ~faiss_index
       THEN semantic_results' = BranchUnavailable
       ELSE \E outcome \in {BranchError} \cup
                 {BranchHits(h) :
                     h \in HitLists(SemanticScores, "semantic", search_request.limit)} :
               semantic_results' = outcome
    /\ search_pc' = IF search_request.search_type = "hybrid"
                    THEN "fulltext" ELSE "finish"
    /\ UNCHANGED <<search_request, faiss_index, whoosh_index, fulltext_results,
                   search_response, search_stats>>
    /\ UNCHANGED nonSearchVars

\* _fulltext_search returns
FulltextReturns ==
    /\ search_pc = "fulltext"
    /\ IF ~whoosh_index
       THEN fulltext_results' = BranchUnavailable
       ELSE \E outcome \in {BranchError} \cup
                 {BranchHits(h) :
                     h \in HitLists(FulltextScores, "fulltext", search_request.limit)} :
               fulltext_results' = outcome
    /\ search_pc' = "finish"
    /\ UNCHANGED <<search_request, faiss_index, whoosh_index, semantic_results,
                   search_response, search_stats>>
    /\ UNCHANGED nonSearchVars

HybridNeedsSemantic(semantic, fulltext, limit) ==
    LET merged == _merge_search_results(semantic.results, fulltext.results, limit) IN
    [success |-> semantic.success,
     results |-> IF semantic.success THEN merged ELSE <<>>,
     total |-> IF semantic.success THEN Len(merged) ELSE 0]

\* the rest of _hybrid_search once both branches have returned
_hybrid_search(semantic, fulltext, limit) ==
    LET merged == _merge_search_results(semantic.results, fulltext.results, limit) IN
    [success |-> TRUE, results |-> merged, total |-> Len(merged)]

\* what a single-branch search hands on: the branch's own result
BranchResult(branch) ==
    [success |-> branch.success, results |-> branch.results,
     total |-> Len(branch.results)]

StatOf(search_type) ==
    CASE search_type = "semantic" -> "vector_searches"
      [] search_type = "fulltext" -> "fulltext_searches"
      [] search_type = "hybrid"   -> "hybrid_searches"

\* the rest of search: the result of the mode, the statistics, the metadata
SearchFinish ==
    /\ search_pc = "finish"
    /\ LET search_type == search_request.search_type
           results ==
               CASE search_type = "semantic" -> BranchResult(semantic_results)
                 [] search_type = "fulltext" -> BranchResult(fulltext_results)
                 [] search_type = "hybrid" ->
                        _hybrid_search(semantic_results, fulltext_results,
                                       search_request.limit)
       IN  /\ search_response' =
                 <<[success |-> results.success, results |-> results.results,
                    total_found |-> results.total, search_type |-> search_type]>>
           /\ semantic_results' =
                 IF search_type = "hybrid"
                 THEN [semantic_results EXCEPT
                          !.results = BoostedInPlace(semantic_results.results)]
                 ELSE semantic_results
           /\ search_stats' = [search_stats EXCEPT ![StatOf(search_type)] = @ + 1,
                                                   !.total_searches = @ + 1]
    /\ search_pc' = "done"
    /\ UNCHANGED <<search_request, faiss_index, whoosh_index, fulltext_results>>
    /\ UNCHANGED nonSearchVars

\* SearchService.__init__ and _load_indexes, before any search
NoSearchStats ==
    [total_searches |-> 0, vector_searches |-> 0, fulltext_searches |-> 0,
     hybrid_searches |-> 0]

SearchIdle ==
    /\ search_request = None
    /\ search_pc = "done"
    /\ faiss_index = FALSE
    /\ whoosh_index = FALSE
    /\ semantic_results = NotRun
    /\ fulltext_results = NotRun
    /\ search_response = None
    /\ search_stats = NoSearchStats

\* -------------------------------------------------------------------- init
\* A new adapter (BaseLLMProvider.__init__) with configuration cfg, on which
\* generate_batch(ps, SystemPrompt, k) has just created its tasks.
Fresh(cfg, ps, k) ==
    /\ config = cfg
    /\ prompts = ps
    /\ system_prompts = [i \in 1..Len(ps) |-> SystemPrompt]
    /\ kwargs = [i \in 1..Len(ps) |-> None]
    /\ max_concurrent = k
    /\ _client = FALSE
    /\ _cache = <<>>
    /\ hit_flag = {}
    /\ _request_count = 0
    /\ _total_tokens = 0
    /\ now = 0
    /\ semaphore = k
    /\ task = [i \in 1..Len(ps) |-> NewTask]
    /\ batch = [returned |-> FALSE, responses |-> <<>>]

\* An adapter that has served CacheLimit distinct requests during the current
\* clock tick, the first of them PromptA, each answered at its first attempt:
\* its cache is full.  generate_batch(ps, SystemPrompt, k) has just created its
\* tasks.
WarmEntry(j) ==
    LET p == IF j = 1 THEN PromptA ELSE OtherPrompt(j) IN
    [key |-> _generate_cache_key(p, SystemPrompt),
     resp |-> SuccessResponse(NPrompts + j, <<p, 0>>),
     ts |-> 0]

\* the tokens those CacheLimit requests reported
WarmTokens == UsageTokens(PromptA) + (CacheLimit - 1) * UsageTokens(OtherPrompt(2))

Warm(cfg, ps, k) ==
    /\ config = cfg
    /\ prompts = ps
    /\ system_prompts = [i \in 1..Len(ps) |-> SystemPrompt]
    /\ kwargs = [i \in 1..Len(ps) |-> None]
    /\ max_concurrent = k
    /\ _client = TRUE
    /\ _cache = [j \in 1..CacheLimit |-> WarmEntry(j)]
    /\ hit_flag = {}
    /\ _request_count = CacheLimit
    /\ _total_tokens = WarmTokens
    /\ now = 0
    /\ semaphore = k
    /\ task = [i \in 1..Len(ps) |-> NewTask]
    /\ batch = [returned |-> FALSE, responses |-> <<>>]

\* the prompt lists of a batch, up to renaming of the prompts
PromptLists == {ps \in [1..NPrompts -> PromptSet] : ps[1] = PromptA}

Init ==
    /\ ServiceIdle
    /\ SearchIdle
    /\ \E cfg \in [max_retries : 0..MaxRetries, enable_caching : {TRUE},
                    cache_ttl : {CacheTtl}],
          ps \in PromptLists, k \in 1..MaxConcurrent :
           \/ Fresh(cfg, ps, k)
           \/ /\ cfg.max_retries = 0
              /\ k = 1
              /\ Warm(cfg, ps, k)

Next ==
    \/ \E i \in Tasks : Start(i)
    \/ \E i \in Tasks : CompleteOk(i)
    \/ \E i \in Tasks : CompleteFail(i)
    \/ \E i \in Tasks : Wake(i)
    \/ Gather
    \/ Tick

Spec == Init /\ [][Next]_vars

\* One generate_response call on a new adapter, for every max_retries up to
\* MaxRetriesSingle, with and without caching.
InitSingle ==
    /\ ServiceIdle
    /\ SearchIdle
    /\ \E cfg \in [max_retries : 0..MaxRetriesSingle, enable_caching : BOOLEAN,
                    cache_ttl : {CacheTtl}] :
           Fresh(cfg, <<PromptA>>, 1)

SpecSingle == InitSingle /\ [][Next]_vars

\* The event loop runs every task that can run: a capability call returns,
\* raises or is timed out by asyncio.wait_for, a sleep ends, a free slot is
\* taken, and gather returns once its tasks have.
TaskStep(i) == Start(i) \/ CompleteOk(i) \/ CompleteFail(i) \/ Wake(i)

Fairness(n) == /\ \A i \in 1..n : WF_vars(TaskStep(i))
               /\ WF_vars(Gather)

FairSpecSingle == SpecSingle /\ Fairness(1)

InitBatch ==
    /\ ServiceIdle
    /\ SearchIdle
    /\ \E cfg \in [max_retries : 0..MaxRetries, enable_caching : {TRUE},
                    cache_ttl : {CacheTtl}],
          ps \in PromptLists, k \in 1..MaxConcurrent :
           Fresh(cfg, ps, k)

FairSpec == InitBatch /\ [][Next]_vars /\ Fairness(NPrompts)

\* generate_response called directly on a new adapter by callers that run side
\* by side (no semaphore: as many slots as calls), each with its own prompt,
\* system prompt and kwargs.
Direct(cfg, ps, sps, kws) ==
    /\ config = cfg
    /\ prompts = ps
    /\ system_prompts = sps
    /\ kwargs = kws
    /\ max_concurrent = Len(ps)
    /\ _client = FALSE
    /\ _cache = <<>>
    /\ hit_flag = {}
    /\ _request_count = 0
    /\ _total_tokens = 0
    /\ now = 0
    /\ semaphore = Len(ps)
    /\ task = [i \in 1..Len(ps) |-> NewTask]
    /\ batch = [returned |-> FALSE, responses |-> <<>>]

InitKey ==
    /\ ServiceIdle
    /\ SearchIdle
    /\ \E cfg \in [max_retries : 0..MaxRetries, enable_caching : {TRUE},
                    cache_ttl : {CacheTtl}],
          ps \in [1..NCalls -> KeyPrompts],
          sps \in [1..NCalls -> KeySystemPrompts],
          kws \in [1..NCalls -> KwargsSet] :
           Direct(cfg, ps, sps, kws)

SpecKey == InitKey /\ [][Next]_vars

\* a new service that is asked to understand one request
InitUnderstand ==
    /\ \E request \in Requests : requests = <<request>>
    /\ call_no = 0
    /\ u_pc = "idle"
    /\ analyzer = [name \in Range(ComponentOrder) |-> IdleAnalyzer]
    /\ interpretation = None
    /\ service_cache = <<>>
    /\ service_caching = TRUE
    /\ today = 0
    /\ parser_now = today
    /\ SearchIdle
    /\ Fresh([max_retries |-> 0, enable_caching |-> TRUE, cache_ttl |-> CacheTtl],
             <<>>, 1)

NextUnderstand ==
    \/ UnderstandBegin
    \/ \E name \in Range(ComponentOrder) : AnalyzerRun(name)
    \/ \E name \in Range(ComponentOrder) : AdapterReturns(name)
    \/ UnderstandFinish

SpecUnderstand == InitUnderstand /\ [][NextUnderstand]_vars

\* ---------------------------------------------- service on the adapter
\* The analyzers of one service share one adapter (_initialize_processors):
\* task i of the adapter is the generate_response call of the i-th analyzer.
TaskOf(name) == CHOOSE i \in 1..Len(ComponentOrder) : ComponentOrder[i] = name

\* the prompt of each analyzer's call: one character per analyzer
AnalyzerPrompts == <<<<105>>, <<107>>, <<116>>, <<101>>>>

\* a generate_response call that was not made
Uncalled == [NewTask EXCEPT !.pc = "uncalled"]

\* the replies whose content the adapter hands over with a success response
ContentReplies(name) == {r \in Replies(name) : IsJson(r) \/ IsText(r)}

\* An analyzer's task runs up to its first await: the fast pass, then either
\* the result or "await self.llm_provider.generate_response(...)", which makes
\* the call of the adapter.
AnalyzerCalls(name) ==
    /\ u_pc = "gathering"
    /\ analyzer[name].pc = "pending"
    /\ LET q == CurrentRequest.query IN
       IF NeedsAdapter(name, q)
       THEN /\ analyzer' = [analyzer EXCEPT ![name] =
                              [@ EXCEPT !.pc = "calling", !.adapter_calls = @ + 1]]
            /\ task' = [task EXCEPT ![TaskOf(name)] =
                          [NewTask EXCEPT !.invocations = task[TaskOf(name)].invocations]]
       ELSE /\ analyzer' = [analyzer EXCEPT ![name] =
                              Finished(name, NoReply, Analyze(name, q, NoReply), 0)]
            /\ UNCHANGED task
    /\ UNCHANGED <<requests, call_no, u_pc, interpretation, service_cache,
                   service_caching>>
    /\ UNCHANGED <<config, prompts, system_prompts, kwargs, max_concurrent, _client,
                   _cache, hit_flag, _request_count, _total_tokens, now, semaphore,
                   batch>>
    /\ UNCHANGED <<searchVars, clockVars>>

\* generate_response has returned to the analyzer: with a success response
\* the analyzer reads its content, with any other response it falls back
AdapterAnswers(name) ==
    /\ u_pc = "gathering"
    /\ analyzer[name].pc = "calling"
    /\ task[TaskOf(name)].pc = "done"
    /\ \E reply \in IF is_successful(task[TaskOf(name)].result[1])
                    THEN ContentReplies(name) ELSE {ErrorReply} :
          analyzer' = [analyzer EXCEPT ![name] =
                         Finished(name, reply,
                                  Analyze(name, CurrentRequest.query, reply),
                                  @.adapter_calls)]
    /\ UNCHANGED <<requests, call_no, u_pc, interpretation, service_cache,
                   service_caching>>
    /\ UNCHANGED nonServiceVars

\* the queries of the linked runs: one that every fast pass settles, one that
\* every analyzer hands to the adapter
SettledQuery ==
    [language |-> "zh", pattern |-> <<1, 0, 0, 0>>, ext |-> 0,
     tokens |-> <<"t1", "tok7", "t1">>, domain |-> {"tok7"}, complex |-> FALSE,
     time_rule |-> "last_week"]
OpenQuery ==
    [language |-> "zh", pattern |-> <<0, 1, 1, 0>>, ext |-> 0,
     tokens |-> <<"t1", "tok7", "t1">>, domain |-> {"tok7"}, complex |-> TRUE,
     time_rule |-> "none"]
\* with at most MaxEnabled analyzers enabled
LinkedRequests ==
    {r \in Requests :
        /\ r.query \in {SettledQuery, OpenQuery}
        /\ Cardinality({name \in Range(ComponentOrder) : Enabled(r, name)})
              \in 1..MaxEnabled}

\* a new service on a new adapter, asked to understand one request
InitLinked ==
    /\ \E request \in LinkedRequests : requests = <<request>>
    /\ call_no = 0
    /\ u_pc = "idle"
    /\ analyzer = [name \in Range(ComponentOrder) |-> IdleAnalyzer]
    /\ interpretation = None
    /\ service_cache = <<>>
    /\ service_caching = TRUE
    /\ today = 0
    /\ parser_now = today
    /\ SearchIdle
    /\ \E cfg \in [max_retries : 0..MaxRetries, enable_caching : {TRUE},
                   cache_ttl : {CacheTtl}] :
          /\ config = cfg
          /\ prompts = AnalyzerPrompts
          /\ system_prompts = [i \in 1..Len(AnalyzerPrompts) |-> SystemPrompt]
          /\ kwargs = [i \in 1..Len(AnalyzerPrompts) |-> None]
          /\ max_concurrent = Len(AnalyzerPrompts)
          /\ _client = FALSE
          /\ _cache = <<>>
          /\ hit_flag = {}
          /\ _request_count = 0
          /\ _total_tokens = 0
          /\ now = 0
          /\ semaphore = Len(AnalyzerPrompts)
          /\ task = [i \in 1..Len(AnalyzerPrompts) |-> Uncalled]
          /\ batch = [returned |-> FALSE, responses |-> <<>>]

NextLinked ==
    \/ UnderstandBegin
    \/ \E name \in Range(ComponentOrder) : AnalyzerCalls(name)
    \/ \E i \in Tasks : Start(i)
    \/ \E i \in Tasks : CompleteOk(i)
    \/ \E i \in Tasks : CompleteFail(i)
    \/ \E i \in Tasks : Wake(i)
    \/ \E name \in Range(ComponentOrder) : AdapterAnswers(name)
    \/ UnderstandFinish

SpecLinked == InitLinked /\ [][NextLinked]_vars

\* A service that has answered ServiceCacheLimit requests, each for another
\* query and with no analyzer enabled: every one of them is in its cache.
FillerRequest(j) ==
    [query |-> [BlankQuery EXCEPT !.tokens = <<ToString(j)>>], options |-> <<>>,
     analyze_intent |-> FALSE, extract_keywords |-> FALSE, parse_time |-> FALSE,
     expand_query |-> FALSE]

FullServiceCache ==
    LET request(key) == CHOOSE r \in {FillerRequest(j) : j \in 1..ServiceCacheLimit} :
                            _service_cache_key(r) = key
    IN  [key \in {_service_cache_key(FillerRequest(j)) : j \in 1..ServiceCacheLimit} |->
            Understood(request(key), request(key).query.language, <<>>)]

\* a service, new or with a full cache, with or without caching, that is asked
\* to understand a request and then the same request or one for another query
InitRepeat ==
    /\ \E first \in LinkedRequests, other \in {SettledQuery, OpenQuery} :
          requests = <<first, [first EXCEPT !.query = other]>>
    /\ call_no = 0
    /\ u_pc = "idle"
    /\ analyzer = [name \in Range(ComponentOrder) |-> IdleAnalyzer]
    /\ interpretation = None
    /\ service_cache \in {<<>>, FullServiceCache}
    /\ service_caching \in BOOLEAN
    /\ today = 0
    /\ parser_now = today
    /\ SearchIdle
    /\ Fresh([max_retries |-> 0, enable_caching |-> TRUE, cache_ttl |-> CacheTtl],
             <<>>, 1)

SpecRepeat == InitRepeat /\ [][NextUnderstand]_vars

\* ------------------------------------------- a service with warm caches
\* The request of these runs: its query goes to the adapter, for the intent
\* and for the keywords.
FullRequests ==
    {r \in Requests : /\ r.query = OpenQuery
                      /\ r.analyze_intent /\ r.extract_keywords
                      /\ ~r.parse_time /\ ~r.expand_query}

\* the orchestration cache of a service that has answered n requests, each
\* for another query
ServiceCacheOf(n) ==
    [key \in {_service_cache_key(FillerRequest(j)) : j \in 1..n} |->
        FullServiceCache[key]]

\* A service whose adapter has served CacheLimit distinct requests, or one
\* less, and which has itself answered ServiceCacheLimit requests, or one
\* less: it is asked to understand one more request.
InitFull ==
    /\ \E request \in FullRequests : requests = <<request>>
    /\ call_no = 0
    /\ u_pc = "idle"
    /\ analyzer = [name \in Range(ComponentOrder) |-> IdleAnalyzer]
    /\ interpretation = None
    /\ \E n \in {ServiceCacheLimit - 1, ServiceCacheLimit} :
          service_cache = ServiceCacheOf(n)
    /\ service_caching = TRUE
    /\ today = 0
    /\ parser_now = today
    /\ SearchIdle
    /\ \E cfg \in [max_retries : 0..MaxRetries, enable_caching : {TRUE},
                   cache_ttl : {CacheTtl}],
          n \in {CacheLimit - 1, CacheLimit} :
          /\ config = cfg
          /\ prompts = AnalyzerPrompts
          /\ system_prompts = [i \in 1..Len(AnalyzerPrompts) |-> SystemPrompt]
          /\ kwargs = [i \in 1..Len(AnalyzerPrompts) |-> None]
          /\ max_concurrent = Len(AnalyzerPrompts)
          /\ _client = TRUE
          /\ _cache = [j \in 1..n |-> WarmEntry(j)]
          /\ hit_flag = {}
          /\ _request_count = n
          /\ _total_tokens = UsageTokens(PromptA) + (n - 1) * UsageTokens(OtherPrompt(2))
          /\ now = 0
          /\ semaphore = Len(AnalyzerPrompts)
          /\ task = [i \in 1..Len(AnalyzerPrompts) |-> Uncalled]
          /\ batch = [returned |-> FALSE, responses |-> <<>>]

SpecFull == InitFull /\ [][NextLinked]_vars

\* the words of the model's texts: product design, PPT, last week, image,
\* music, the last 3 days, a.ppt
Vocabulary ==
    {<<"C", "N", "S", "J">>, <<"P", "P", "T">>, <<"H", "Z">>,
     <<"i", "m", "a", "g", "e">>, <<"m", "u", "s", "i", "c">>,
     <<"U", "K", "3", "D">>, <<"a", ".", "p", "p", "t">>}

\* ' '.join(words)
RECURSIVE Joined(_)
Joined(words) ==
    IF Len(words) = 1 THEN words[1]
    ELSE words[1] \o <<" ">> \o Joined(Tail(words))

Texts == {Joined(words) : words \in UNION {[1..n -> Vocabulary] : n \in 1..MaxWords}}

\* QueryAnalysisRequest(query=text) with every analyzer enabled (the defaults)
TextRequest(text) ==
    [query |-> Features(text), options |-> <<>>, analyze_intent |-> TRUE,
     extract_keywords |-> TRUE, parse_time |-> TRUE, expand_query |-> TRUE]

\* a new service that is asked to understand one text with every analyzer
InitText ==
    /\ \E text \in Texts : requests = <<TextRequest(text)>>
    /\ call_no = 0
    /\ u_pc = "idle"
    /\ analyzer = [name \in Range(ComponentOrder) |-> IdleAnalyzer]
    /\ interpretation = None
    /\ service_cache = <<>>
    /\ service_caching = TRUE
    /\ today = 0
    /\ parser_now = today
    /\ SearchIdle
    /\ Fresh([max_retries |-> 0, enable_caching |-> TRUE, cache_ttl |-> CacheTtl],
             <<>>, 1)

SpecText == InitText /\ [][NextUnderstand]_vars

\* ------------------------------------------------- a long-lived service
\* The clock reaches midnight between two calls of the service.
DayPasses ==
    /\ u_pc \in {"idle", "returned"}
    /\ today < parser_now + MaxDays
    /\ today' = today + 1
    /\ UNCHANGED <<parser_now, adapterVars, serviceVars, searchVars>>

\* queries with "today", with "last week" and with no time expression, and the
\* requests that have them parsed for a time range, alone or with the intent
DatedQueries ==
    {[BlankQuery EXCEPT !.language = "en", !.time_rule = r] :
        r \in {"today", "last_week", "none"}}

DatedRequests ==
    [query : DatedQueries, options : {<<>>}, analyze_intent : BOOLEAN,
     extract_keywords : {FALSE}, parse_time : {TRUE}, expand_query : {FALSE}]

\* a service constructed on any day of a week, with or without caching, that
\* is asked to understand two requests while the days pass
InitDated ==
    /\ requests \in [1..2 -> DatedRequests]
    /\ call_no = 0
    /\ u_pc = "idle"
    /\ analyzer = [name \in Range(ComponentOrder) |-> IdleAnalyzer]
    /\ interpretation = None
    /\ service_cache = <<>>
    /\ service_caching \in BOOLEAN
    /\ today \in 0..6
    /\ parser_now = today
    /\ SearchIdle
    /\ Fresh([max_retries |-> 0, enable_caching |-> TRUE, cache_ttl |-> CacheTtl],
             <<>>, 1)

NextDated ==
    \/ NextUnderstand
    \/ DayPasses

SpecDated == InitDated /\ [][NextDated]_vars

\* a search service whose indexes were loaded or not, asked for one search
SearchRequests == [search_type : SearchTypes, limit : 1..MaxLimit]

InitSearch ==
    /\ search_request \in SearchRequests
    /\ search_pc = "idle"
    /\ faiss_index \in BOOLEAN
    /\ whoosh_index \in BOOLEAN
    /\ semantic_results = NotRun
    /\ fulltext_results = NotRun
    /\ search_response = None
    /\ search_stats = NoSearchStats
    /\ ServiceIdle
    /\ Fresh([max_retries |-> 0, enable_caching |-> TRUE, cache_ttl |-> CacheTtl],
             <<>>, 1)

NextSearch ==
    \/ SearchBegin
    \/ SemanticReturns
    \/ FulltextReturns
    \/ SearchFinish

SpecSearch == InitSearch /\ [][NextSearch]_vars

\* ============================================================== properties
Key(i) == _generate_cache_key(prompts[i], system_prompts[i])
Result(i) == task[i].result[1]
Returned(i) == task[i].pc = "done"
ReturnedSuccess(i) == Returned(i) /\ is_successful(Result(i))
\* task i starts its generate_response call in this step
Starts(i) == task[i].pc = "queued" /\ task'[i].pc # "queued"
\* the call of task i was answered from the cache, with cache_hit = true and
\* without any invocation of the capability
ServedFromCache(i) ==
    /\ Returned(i)
    /\ task[i].lookup = "hit"
    /\ is_successful(Result(i))
    /\ Result(i).rid \in hit_flag
    /\ task[i].invocations = 0
\* the entry that call j stored or was served is younger than the TTL
WithinTtl(j) == now - task[j].entry_ts < config.cache_ttl
\* task j returned success for the request task i now starts with, before the
\* entry's TTL has elapsed
RepeatsWithinTtl(i, j) ==
    /\ config.enable_caching
    /\ i # j
    /\ Starts(i)
    /\ ReturnedSuccess(j)
    /\ Key(i) = Key(j)
    /\ WithinTtl(j)

EntriesFor(key) == Cardinality({x \in 1..Len(_cache) : _cache[x].key = key})

C3_CacheExpiry ==
    [][\A i \in Tasks :
          LET x == CacheIndex(_cache, Key(i)) IN
          /\ (config.enable_caching /\ Starts(i) /\ x # 0
                /\ now - _cache[x].ts >= config.cache_ttl)
                => /\ CacheIndex(_cache', Key(i)) = 0
                   /\ Len(_cache') = Len(_cache) - 1
                   /\ task'[i].lookup = "expired"
                   /\ task'[i].pc = "inflight"
                   /\ task'[i].invocations = 1
          /\ Starts(i)
                => \/ _cache' = _cache
                   \/ /\ x # 0
                      /\ now - _cache[x].ts >= config.cache_ttl
                      /\ _cache' = RemoveAt(_cache, x)
          /\ (config.enable_caching /\ task[i].lookup = "expired"
                /\ ~Returned(i) /\ ReturnedSuccess(i)')
                => /\ CacheIndex(_cache', Key(i)) # 0
                   /\ _cache'[CacheIndex(_cache', Key(i))].ts = now
                   /\ _cache'[CacheIndex(_cache', Key(i))].resp = Result(i)'
      ]_vars

\* the case of C3: a call found an expired entry, invoked the capability and
\* stored a fresh entry
C3_Witness ==
    \E i \in Tasks :
        /\ task[i].lookup = "expired"
        /\ ReturnedSuccess(i)
        /\ Result(i).rid = i
        /\ task[i].invocations >= 1
        /\ CacheIndex(_cache, Key(i)) # 0
        /\ _cache[CacheIndex(_cache, Key(i))].resp = Result(i)

\* every attempt task i made called the capability and the capability failed
EveryAttemptFailed(i) == task[i].failures = task[i].attempt + 1

\* C4 as stated: when the capability fails on every attempt, generate returns
\* an error response after exactly max_retries invocations of the capability.
C4_AsStated ==
    \A i \in Tasks :
        (Returned(i) /\ EveryAttemptFailed(i))
            => /\ Result(i).status = "error"
               /\ task[i].invocations = config.max_retries

\* C4 (amended): when the capability fails on every attempt, generate returns
\* an error response after exactly max_retries + 1 invocations of the
\* capability (the first attempt and max_retries retries), and makes no
\* further invocation.
C4_RetryBound ==
    \A i \in Tasks :
        /\ task[i].invocations <= config.max_retries + 1
        /\ (Returned(i) /\ EveryAttemptFailed(i))
              => /\ Result(i).status = "error"
                 /\ task[i].invocations = config.max_retries + 1

\* the case of C4: a call with two retries or more came back with an error
\* after the capability failed every time
C4_Witness ==
    \E i \in Tasks :
        /\ config.max_retries >= 2
        /\ Returned(i)
        /\ EveryAttemptFailed(i)
        /\ Result(i).status = "error"

\* C5: when the capability fails on the first N-1 attempts and answers the
\* N-th, 1 <= N <= max_retries, generate returns a success response with the
\* content of the N-th attempt after exactly N invocations.
C5_SucceedsOnNth ==
    \A i \in Tasks :
        LET N == task[i].failures + 1 IN
        (/\ task[i].answered >= 1
         /\ task[i].attempt = task[i].failures
         /\ N <= config.max_retries)
            => /\ ReturnedSuccess(i)
               /\ Result(i).data = <<<<prompts[i], N - 1>>>>
               /\ task[i].invocations = N
               /\ task[i].answered = 1

\* the case of C5: two failed attempts, then an answer at the third
C5_Witness ==
    \E i \in Tasks :
        /\ task[i].failures = 2
        /\ task[i].attempt = 2
        /\ task[i].answered = 1
        /\ config.max_retries >= 3
        /\ ReturnedSuccess(i)

\* a success response with content, or an error response with classified
\* error information and a recoverability flag
ProperResponse(r) ==
    \/ /\ r.status = "success"
       /\ r.data # None
    \/ /\ r.status = "error"
       /\ r.error # None
       /\ Len(r.error[1]) = 2
       /\ r.error[1][1] \in {"timeout", "authentication", "ValidationError",
                               "Exception"}
       /\ r.error[1][2] \in BOOLEAN

\* C6: for every sequence of attempt outcomes and every max_retries >= 0 the
\* generate call terminates, and what it returns is a success response or an
\* error response with classified error information and a recoverability flag.
C6_NeverRaises ==
    /\ [](\A i \in Tasks : Returned(i) => ProperResponse(Result(i)))
    /\ <>(\A i \in Tasks : Returned(i))

\* the case of C6: an error response after attempts that failed in different
\* ways, one of them at the initialisation of the client
C6_Witness ==
    \E i \in Tasks :
        /\ Returned(i)
        /\ Result(i).status = "error"
        /\ task[i].failures >= 1
        /\ task[i].invocations < task[i].attempt + 1
        /\ ProperResponse(Result(i))

\* the calls that hold a slot of the semaphore
InFlight == {i \in Tasks : task[i].pc \in {"inflight", "backoff"}}

\* C7: during generate_batch with max_concurrent = k over more than k prompts
\* at most k generate calls are in flight.
C7_BoundedConcurrency == Cardinality(InFlight) <= max_concurrent

\* the case of C7: k = 2 calls in flight and a third prompt waiting for a slot
C7_Witness ==
    /\ max_concurrent = 2
    /\ Len(prompts) > max_concurrent
    /\ Cardinality(InFlight) = max_concurrent
    /\ \E i \in Tasks : task[i].pc = "queued"

\* C8: a prompt whose capability call fails on every attempt does not block
\* the others: the batch returns, with an error response at that prompt's
\* position and the responses of the other calls at theirs.
C8_BatchCompletes ==
    /\ <>(batch.returned)
    /\ [](batch.returned =>
            \A i \in Tasks :
                /\ Returned(i)
                /\ EveryAttemptFailed(i) => batch.responses[i].status = "error"
                /\ task[i].answered = 1 =>
                      /\ is_successful(batch.responses[i])
                      /\ batch.responses[i].rid = i
                /\ task[i].lookup = "hit" => is_successful(batch.responses[i]))

\* the case of C8: with one slot, a batch returned an error for a prompt whose
\* every attempt failed and a success for another prompt
C8_Witness ==
    /\ batch.returned
    /\ max_concurrent = 1
    /\ \E i, j \in Tasks :
          /\ EveryAttemptFailed(i)
          /\ task[i].failures >= 2
          /\ batch.responses[i].status = "error"
          /\ task[j].answered = 1
          /\ is_successful(batch.responses[j])

\* C9: generate_batch returns len(prompts) responses, the i-th being the
\* response to the i-th prompt, in whatever order the calls completed.
C9_OrderPreserving ==
    batch.returned =>
        /\ Len(batch.responses) = Len(prompts)
        /\ \A i \in Tasks :
              /\ batch.responses[i] = Result(i)
              /\ is_successful(batch.responses[i])
                    => batch.responses[i].data[1][1] = prompts[i]

\* the case of C9: a batch returned although a later prompt completed before an
\* earlier one (the earlier call was served the later call's response), with a
\* different prompt in the batch as well
C9_Witness ==
    /\ batch.returned
    /\ \E i, j, k \in Tasks :
          /\ i < j
          /\ Result(i).rid = j
          /\ prompts[k] # prompts[i]
          /\ is_successful(batch.responses[k])

\* exactly one of content and error information is populated
ContentXorError(r) ==
    /\ r.status = "success" => (r.data # None /\ r.error = None)
    /\ r.status # "success" => (r.error # None /\ r.data = None)

\* C10: every response returned by generate or generate_batch has content and
\* no error when its status is success, and error information and no content
\* otherwise.
C10_ContentXorError ==
    /\ \A i \in Tasks : Returned(i) => ContentXorError(Result(i))
    /\ batch.returned =>
          \A i \in 1..Len(batch.responses) : ContentXorError(batch.responses[i])

\* the case of C10: a batch returned a cache hit, a new success response and an
\* error response
C10_Witness ==
    /\ batch.returned
    /\ \E i, j, k \in Tasks :
          /\ task[i].lookup = "hit"
          /\ task[j].answered = 1
          /\ batch.responses[k].status = "error"

\* the full request of call i: prompt, system instruction, generation options
Request(i) == <<prompts[i], system_prompts[i], kwargs[i]>>

\* C11: two generate calls that differ in prompt, system instruction or
\* generation options never share a cache entry (the entry found under the key
\* of one was not stored by the other), and a call is never answered from the
\* cache with a response that was created for a different request.
C11_KeyCoversRequest ==
    \A i, j \in Tasks :
        Request(i) # Request(j) =>
            /\ CacheIndex(_cache, Key(i)) # 0
                  => _cache[CacheIndex(_cache, Key(i))].resp.rid # j
            /\ ~(ServedFromCache(i) /\ Result(i).rid = j)

\* ------------------------------------------------- understanding a query
UnderstandReturned == u_pc = "returned" /\ interpretation # None
Interpretation == interpretation[1]

\* the adapter call of an analyzer was made and failed: it raised or it
\* yielded an error response
AdapterFailed(name) ==
    analyzer[name].pc = "done" /\ analyzer[name].reply \in {Raises, ErrorReply}

\* what the current call returns when the adapter hands analyzer `name` the
\* given reply, every other analyzer ending as it did
UnderstoodWith(name, reply) ==
    LET request == CurrentRequest
        q == request.query
        order == TaskOrder(request)
        component_results ==
            [i \in 1..Len(order) |->
                IF order[i] = name
                THEN WithRetry(name, Analyze(name, q, reply), q.language)
                ELSE analyzer[order[i]].returned]
    IN  Understood(request, q.language, component_results)

SuccessfulReplies(name) == Replies(name) \ {Raises, ErrorReply}

\* C12: when the intent analyzer's adapter call raises or yields an error
\* response, understand_query returns success, its intent component is the
\* rule-based intent of the query, and its overall confidence is at most the
\* overall confidence the same call has for every reply of a successful
\* adapter call.
C12_IntentDegrades ==
    (UnderstandReturned /\ AdapterFailed("intent")) =>
        /\ Interpretation.success
        /\ Interpretation.components["intent"]
              = _rule_based_intent_analysis(CurrentRequest.query)
        /\ \A reply \in SuccessfulReplies("intent") :
              Interpretation.parsed_query.confidence
                 <= UnderstoodWith("intent", reply).parsed_query.confidence

\* the adapter call made for a query of rule confidence 0.3 raised: the call
\* returned with confidence 0.3, below what a successful adapter call gives
C12_Witness ==
    /\ UnderstandReturned
    /\ analyzer["intent"].reply = Raises
    /\ Interpretation.success
    /\ Interpretation.components["intent"].intent_type = "document_search"
    /\ Interpretation.parsed_query.confidence = Pct(30)
    /\ \E reply \in SuccessfulReplies("intent") :
          UnderstoodWith("intent", reply).parsed_query.confidence = Pct(50)

\* the analyzers the current call runs
EnabledAnalyzers == {name \in Range(ComponentOrder) : Enabled(CurrentRequest, name)}

\* the sub-result an analyzer gives on its own for the reply its adapter call got
OwnResult(name) ==
    WithRetry(name, Analyze(name, CurrentRequest.query, analyzer[name].reply),
              CurrentRequest.query.language).value

\* C13: when the operation of an enabled analyzer raises during
\* understand_query, no other enabled analyzer's task is dropped, the call
\* returns success, and the component of every other enabled analyzer is the
\* sub-result that analyzer gives on its own.
C13_FailureIsolated ==
    \A failed \in Range(ComponentOrder) :
        (call_no > 0 /\ analyzer[failed].raised) =>
            \A other \in EnabledAnalyzers \ {failed} :
                /\ analyzer[other].pc \in {"pending", "calling", "done"}
                /\ UnderstandReturned =>
                      /\ Interpretation.success
                      /\ analyzer[other].pc = "done"
                      /\ ~analyzer[other].raised =>
                            Interpretation.components[other] = OwnResult(other)

\* the expander raised while intent, keywords and time were analyzed; the call
\* returned success with their sub-results
C13_Witness ==
    /\ UnderstandReturned
    /\ analyzer["expansion"].raised
    /\ EnabledAnalyzers = Range(ComponentOrder)
    /\ Interpretation.success
    /\ Interpretation.components["intent"].kind = "intent"
    /\ Interpretation.components["keywords"].kind = "keywords"
    /\ Interpretation.components["time"].kind = "time"
    /\ analyzer["keywords"].reply = Text(<<"alpha", "beta">>)

\* the confidences of the analyzers that contributed a result to the
\* interpretation: the intent's, the time range's and the expansion's
ContributingConfidences(components) ==
    {Component(components, "intent").confidence :
        x \in {y \in {1} : Component(components, "intent").kind = "intent"}}
    \cup {Component(components, "time").confidence :
        x \in {y \in {1} : Component(components, "time").kind = "time"}}
    \cup {Component(components, "expansion").expansion_confidence :
        x \in {y \in {1} : Component(components, "expansion").kind = "expansion"}}

Minimum(S) == CHOOSE m \in S : \A n \in S : m <= n

\* C14: the overall confidence of the interpretation understand_query returns
\* is the minimum of the confidences of the analyzers that contributed a
\* result; a disabled analyzer or one without a result does not enter it.
C14_ConfidenceIsMinimum ==
    (UnderstandReturned /\ Interpretation.success
        /\ ContributingConfidences(Interpretation.components) # {}) =>
        Interpretation.parsed_query.confidence
            = Minimum(ContributingConfidences(Interpretation.components))

\* ---------------------------------------------------------- hybrid search
\* search returns in this step, in hybrid mode, after both branches returned
\* hit lists: semantic_results and fulltext_results are the lists the merge is
\* given, search_response' holds the list it returns
HybridMerges ==
    /\ search_pc = "finish"
    /\ search_pc' = "done"
    /\ search_request.search_type = "hybrid"

Merged == search_response'[1].results
SemanticHits == semantic_results.results
FulltextHits == fulltext_results.results

PositionsOf(hits, id) == {i \in 1..Len(hits) : hits[i].id = id}
FirstScore(hits, id) ==
    hits[CHOOSE i \in PositionsOf(hits, id) : \A j \in PositionsOf(hits, id) : i <= j]
        .relevance_score
\* min(s * 1.2, 1.0) in hundredths
TimesOnePointTwoCapped(s) == IF 12 * s > 1000 THEN 100 ELSE (12 * s) \div 10

\* C15 as stated: the merged list holds each id at most once, and an id that is
\* in both lists is in it exactly once with a boosted semantic score.
C15_AsStated ==
    [][HybridMerges =>
        /\ \A i, j \in 1..Len(Merged) : Merged[i].id = Merged[j].id => i = j
        /\ \A id \in Ids(SemanticHits) \cap Ids(FulltextHits) :
              /\ Cardinality(PositionsOf(Merged, id)) = 1
              /\ \A i \in PositionsOf(Merged, id) :
                    \E k \in PositionsOf(SemanticHits, id) :
                        Merged[i].relevance_score
                           = TimesOnePointTwoCapped(SemanticHits[k].relevance_score)]_vars

\* C15: the merged list holds each id at most once; an id that is in both lists
\* is in it at most once, exactly once when the two lists hold no more than
\* limit distinct ids, and where it is kept it carries min(s * 1.2, 1.0) for
\* the score s of its first semantic hit, not the fulltext score.
C15_DedupBoost ==
    [][HybridMerges =>
        /\ \A i, j \in 1..Len(Merged) : Merged[i].id = Merged[j].id => i = j
        /\ \A id \in Ids(SemanticHits) \cap Ids(FulltextHits) :
              /\ Cardinality(PositionsOf(Merged, id)) <= 1
              /\ Cardinality(Ids(SemanticHits) \cup Ids(FulltextHits))
                    <= search_request.limit
                    => Cardinality(PositionsOf(Merged, id)) = 1
              /\ \A i \in PositionsOf(Merged, id) :
                    /\ Merged[i].relevance_score
                          = TimesOnePointTwoCapped(FirstScore(SemanticHits, id))
                    /\ Merged[i].match_type = "hybrid"]_vars

\* a hybrid search returned d1 once, with the capped boosted score 1.0, where
\* the semantic list had d1 at 0.85 and the fulltext list had d1 at 2.5
C15_Witness ==
    /\ search_pc = "done"
    /\ search_request.search_type = "hybrid"
    /\ "d1" \in Ids(semantic_results.results) \cap Ids(fulltext_results.results)
    /\ FirstScore(fulltext_results.results, "d1") = 250
    /\ Cardinality(PositionsOf(search_response[1].results, "d1")) = 1
    /\ \A i \in PositionsOf(search_response[1].results, "d1") :
          /\ search_response[1].results[i].relevance_score = 100
          /\ search_response[1].results[i].match_type = "hybrid"

\* the score a document has after boosting: its first semantic hit's boosted
\* score, or the score of its first fulltext hit when no semantic hit has it
ScoreAfterBoost(id) ==
    IF id \in Ids(SemanticHits)
    THEN TimesOnePointTwoCapped(FirstScore(SemanticHits, id))
    ELSE FirstScore(FulltextHits, id)

AllIds == Ids(SemanticHits) \cup Ids(FulltextHits)

\* C16: for limit >= 1 the merged list is in non-increasing order of score and
\* holds min(limit, number of distinct ids in the two lists) hits, each with
\* its document's score after boosting, and no document that is left out has a
\* higher score after boosting than a hit that is kept.
C16_SortedTopLimit ==
    [][(HybridMerges /\ search_request.limit >= 1) =>
        /\ \A i, j \in 1..Len(Merged) :
              i < j => Merged[i].relevance_score >= Merged[j].relevance_score
        /\ Len(Merged) = Min2(search_request.limit, Cardinality(AllIds))
        /\ \A i \in 1..Len(Merged) :
              /\ Merged[i].id \in AllIds
              /\ Merged[i].relevance_score = ScoreAfterBoost(Merged[i].id)
        /\ \A id \in AllIds \ Ids(Merged) :
              \A i \in 1..Len(Merged) :
                  ScoreAfterBoost(id) <= Merged[i].relevance_score]_vars

\* a hybrid search with limit 2 found three documents and returned the two
\* best, a fulltext hit above a boosted semantic hit
C16_Witness ==
    /\ search_pc = "done"
    /\ search_request.search_type = "hybrid"
    /\ search_request.limit = 2
    /\ Cardinality(Ids(semantic_results.results) \cup Ids(fulltext_results.results)) = 3
    /\ Len(search_response[1].results) = 2
    /\ search_response[1].results[1].match_type = "fulltext"
    /\ search_response[1].results[1].relevance_score = 250
    /\ search_response[1].results[2].match_type = "hybrid"
    /\ search_response[1].results[2].relevance_score = 100

SearchReturned == search_pc = "done" /\ search_response # None
HybridReturned == SearchReturned /\ search_request.search_type = "hybrid"

\* C17: in hybrid mode search reports failure (success = false) when both
\* branches failed, and success when at least one branch succeeded.
C17_BothFailIsError ==
    HybridReturned =>
        search_response[1].success
            = (semantic_results.success \/ fulltext_results.success)

Sorted(hits) ==
    \A i, j \in 1..Len(hits) :
        i < j => hits[i].relevance_score >= hits[j].relevance_score

\* C18: in hybrid mode, when exactly one branch fails, search reports success
\* and its list holds the documents of the other branch, one hit each, in
\* non-increasing order of score and cut to limit: fulltext hits as the branch
\* returned them, semantic hits with the boosted score of the document's first
\* hit.
C18_OneBranchDegrades ==
    [][HybridMerges =>
        /\ (~semantic_results.success /\ fulltext_results.success) =>
              /\ search_response'[1].success
              /\ Sorted(Merged)
              /\ Len(Merged) = Min2(search_request.limit, Cardinality(Ids(FulltextHits)))
              /\ Len(FulltextHits) <= search_request.limit
                    => Ids(Merged) = Ids(FulltextHits)
              /\ \A i \in 1..Len(Merged) :
                    Merged[i] = Hit(Merged[i].id,
                                    FirstScore(FulltextHits, Merged[i].id), "fulltext")
        /\ (semantic_results.success /\ ~fulltext_results.success) =>
              /\ search_response'[1].success
              /\ Sorted(Merged)
              /\ Len(Merged) = Min2(search_request.limit, Cardinality(Ids(SemanticHits)))
              /\ Len(SemanticHits) <= search_request.limit
                    => Ids(Merged) = Ids(SemanticHits)
              /\ \A i \in 1..Len(Merged) :
                    Merged[i] = Hit(Merged[i].id,
                                    TimesOnePointTwoCapped(
                                        FirstScore(SemanticHits, Merged[i].id)),
                                    "hybrid")]_vars

\* the vector search raised, the fulltext branch found d1 at 0.6 and d2 at 2.5:
\* search returned success with d2, d1 at those scores
C18_Witness ==
    /\ HybridReturned
    /\ semantic_results = BranchError
    /\ fulltext_results
          = BranchHits(<<Hit("d1", 60, "fulltext"), Hit("d2", 250, "fulltext")>>)
    /\ search_response[1].success
    /\ search_response[1].results
          = <<Hit("d2", 250, "fulltext"), Hit("d1", 60, "fulltext")>>

\* ------------------------------------------------------ analyzer fallback
AnalyzerDone(name) == call_no > 0 /\ analyzer[name].pc = "done"
Sub(name) == analyzer[name].returned.value
RuleIntent == _rule_based_intent_analysis(CurrentRequest.query)
RuleKeywords == _rule_based_extraction(CurrentRequest.query).keywords

\* the adapter yielded an error response, or JSON content that is not of the
\* expected structure
Unusable(name) ==
    IF name = "intent"
    THEN {ErrorReply, JsonArray,
          JsonObject([intent_type |-> "video_search", confidence |-> Pct(150)])}
    ELSE {ErrorReply, JsonArray}

\* content that is no JSON at all
Unparseable(name) == {r \in Replies(name) : IsText(r)}

C20_AnalyzersNeverRaise ==
    \A name \in Range(ComponentOrder) : ~analyzer[name].raised

\* ------------------------------------------------------ calls of the adapter
\* the capability invocations made so far for the analyzers of the service
RECURSIVE InvocationsUpTo(_)
InvocationsUpTo(n) ==
    IF n = 0 THEN 0 ELSE task[n].invocations + InvocationsUpTo(n - 1)
CapabilityInvocations == InvocationsUpTo(Len(task))

SameRequestAgain ==
    /\ call_no = 2
    /\ _service_cache_key(requests[2]) = _service_cache_key(requests[1])
    /\ service_caching

AnsweredFromServiceCache ==
    /\ u_pc = "returned"
    /\ Interpretation.cached
    /\ Interpretation = service_cache[_service_cache_key(requests[2])]
    /\ \A name \in Range(ComponentOrder) : analyzer[name] = IdleAnalyzer

\* the cache had fewer than ServiceCacheLimit entries when the request's result
\* came to be stored
HadRoom(request) ==
    Cardinality(DOMAIN service_cache \ {_service_cache_key(request)})
        < ServiceCacheLimit

\* C22 as stated: with caching enabled, the call that follows a successful
\* understand_query with the same query and options is a cache hit: it returns
\* cached = true, runs no analyzer and makes no adapter call.
C22_RepeatIsCacheHit == SameRequestAgain => AnsweredFromServiceCache

\* C22, amended: a successful understand_query with caching enabled has stored
\* its interpretation under its (query, options) key when it returns, provided
\* the cache held fewer than 1000 entries; the call that follows with the same
\* query and options is then a cache hit that returns cached = true, runs no
\* analyzer and makes no adapter call.
C22_StoredWhenRoom ==
    /\ (call_no = 1 /\ u_pc = "returned" /\ service_caching /\ HadRoom(requests[1]))
         => /\ _service_cache_key(requests[1]) \in DOMAIN service_cache
            /\ service_cache[_service_cache_key(requests[1])] = Interpretation
    /\ (SameRequestAgain /\ HadRoom(requests[2])) => AnsweredFromServiceCache

C22_Witness ==
    /\ SameRequestAgain
    /\ HadRoom(requests[2])
    /\ requests[2].query = OpenQuery
    /\ requests[2].analyze_intent
    /\ AnsweredFromServiceCache

\* the score of a category: its pattern matches plus one for its file extension
CategoryScore(q, c) == q.pattern[c] + (IF q.ext = c THEN 1 ELSE 0)
HighestScored(q) ==
    {c \in 1..4 : /\ CategoryScore(q, c) > 0
                  /\ \A d \in 1..4 : CategoryScore(q, d) <= CategoryScore(q, c)}

\* the intent analyzer has handed on what its rule-based pass found
RuleIntentReturned ==
    /\ AnalyzerDone("intent")
    /\ analyzer["intent"].reply \in {NoReply, ErrorReply}

\* C23: in the rule-based intent classifier the category with the highest
\* pattern score wins, and whenever two or more categories tie for the highest
\* score the result is document_search.
C23_TieIsDocumentSearch ==
    RuleIntentReturned =>
        LET highest == HighestScored(CurrentRequest.query) IN
        /\ Cardinality(highest) = 1
              => \A c \in highest : Sub("intent").intent_type = PatternIntents[c]
        /\ Cardinality(highest) >= 2
              => Sub("intent").intent_type = "document_search"

\* the step in which the fulltext branch of a hybrid search is started
FulltextStarts ==
    /\ search_request.search_type = "hybrid"
    /\ search_pc # "fulltext"
    /\ search_pc' = "fulltext"

\* C24: in hybrid mode the semantic search and the fulltext search are started
\* together and run concurrently: when the fulltext branch is started the
\* semantic branch has not completed yet.
C24_BranchesConcurrent ==
    [][FulltextStarts => semantic_results' = NotRun]_vars

\* the query of the end-to-end example: product design, PPT, last week
ExampleText == <<"C", "N", "S", "J", " ", "P", "P", "T", " ", "H", "Z">>

\* C25: for the example query with all analyzers enabled understand_query
\* returns language "zh", intent document_search with file_types containing
\* "ppt", a time range (that of the previous calendar week) and search terms
\* that include the words for product design and "PPT".
C25_ExampleQuery ==
    (UnderstandReturned /\ CurrentRequest = TextRequest(ExampleText)) =>
        /\ Interpretation.language = "zh"
        /\ Interpretation.components["intent"].kind = "intent"
        /\ Interpretation.components["intent"].intent_type = "document_search"
        /\ "ppt" \in Interpretation.components["intent"].file_types
        /\ Interpretation.components["time"].kind = "time"
        /\ {"CNSJ", "PPT"} \subseteq Interpretation.parsed_query.search_terms

\* C26: between consecutive attempts generate_response waits
\* retry_delay * 2^a, a being the 0-based index of the attempt that failed;
\* there is no wait before the first attempt and none after the last failed
\* one.
C26_ExponentialBackoff ==
    \A i \in Tasks :
        /\ \A a \in 0..(Len(task[i].delays) - 1) :
              task[i].delays[a + 1] = RetryDelay * Pow2(a)
        /\ Len(task[i].delays) =
              IF task[i].pc = "backoff" THEN task[i].attempt + 1 ELSE task[i].attempt
        /\ (Returned(i) /\ Result(i).status = "error")
              => Len(task[i].delays) = config.max_retries

\* a call with three retries failed four times: it waited 1, 2 and 4 times
\* retry_delay
C26_Witness ==
    \E i \in Tasks :
        /\ config.max_retries = 3
        /\ Returned(i)
        /\ Result(i).status = "error"
        /\ task[i].failures = 4
        /\ task[i].delays = <<RetryDelay, 2 * RetryDelay, 4 * RetryDelay>>

\* the entries that a step removes from the adapter cache
Evicted == {e \in Range(_cache) : \A f \in Range(_cache') : f.key # e.key}

\* an entry stored before the first call of the run and never served since
StoredBeforeAndUnused(f) ==
    /\ f \in {WarmEntry(j) : j \in 1..CacheLimit}
    /\ f.resp.rid \notin hit_flag

\* C27: when storing a response makes the adapter cache exceed its size bound,
\* exactly one entry is evicted and it is the least recently used one, a cache
\* hit counting as a use: an entry that was served as a hit is not evicted
\* while an entry that was stored before that hit and never served stays.
C27_EvictsLeastRecentlyUsed ==
    [][(Len(_cache) = CacheLimit /\ Len(_cache') = CacheLimit /\ _cache' # _cache
        /\ Evicted # {})
           => /\ Cardinality(Evicted) = 1
              /\ \A e \in Evicted :
                    e.resp.rid \in hit_flag
                       => ~\E f \in Range(_cache') : StoredBeforeAndUnused(f)]_vars

\* C28: request_count is the number of capability invocations that completed
\* successfully and total_tokens the sum of the token counts they reported: a
\* failed or timed-out attempt leaves both as they were.
C28_CountersMatchSuccesses ==
    \A i \in Tasks :
        Len(prompts) = 1 =>
            /\ _request_count = task[i].answered
            /\ _total_tokens = task[i].answered * UsageTokens(prompts[i])

\* C29: a parametrised relative time expression (the last 3 days) is resolved
\* by the handler of its rule-table pattern, to a range with confidence 0.9,
\* without any call of the adapter.
C29_ParametrisedByRule ==
    (/\ call_no > 0
     /\ CurrentRequest.parse_time
     /\ CurrentRequest.query.time_rule = "parametrised"
     /\ analyzer["time"].pc \in {"calling", "done"})
        => /\ analyzer["time"].adapter_calls = 0
           /\ AnalyzerDone("time")
                 => /\ Sub("time").kind = "time"
                    /\ Sub("time").confidence = Pct(90)

\* C30: an analyzer calls the adapter only when its fast pass is inconclusive:
\* the intent analyzer only when the rule-based confidence is below 0.8, the
\* time parser only when no pattern of the rule table matched, the keyword
\* extractor only when the query is judged complex.
C30_AdapterOnlyWhenInconclusive ==
    call_no > 0 =>
        /\ analyzer["intent"].adapter_calls > 0 => RuleIntent.confidence < Pct(80)
        /\ analyzer["time"].adapter_calls > 0
              => CurrentRequest.query.time_rule = "none"
        /\ analyzer["keywords"].adapter_calls > 0 => CurrentRequest.query.complex

\* ------------------------------------------------ failures in the components
\* C31: when the operation of an enabled analyzer raised during
\* understand_query, the returned interpretation has an entry for that analyzer
\* in components and the entry is the record of an error, not the entry of an
\* analyzer that ran and found nothing.
C31_FailureRecorded ==
    \A name \in Range(ComponentOrder) :
        (UnderstandReturned /\ analyzer[name].raised) =>
            /\ name \in DOMAIN Interpretation.components
            /\ Interpretation.components[name].kind = "error"

\* ------------------------------------------------------------ the calendar
\* an understand_query call returns, from its analyzers or from the cache
Returns == u_pc' = "returned" /\ (u_pc = "gathering" \/ call_no' # call_no)
ReturnedTime == interpretation'[1].components["time"]
AskedFor(handler) ==
    /\ Returns
    /\ requests[call_no'].parse_time
    /\ requests[call_no'].query.time_rule = handler

\* C32: whatever the current date, a query with "last week" comes back with
\* the previous calendar week: start is the Monday of the week before the
\* current one, end is the Sunday after it, so end = start + 6 days = the
\* Monday of the current week - 1 day, and start <= end < today.
C32_LastWeekIsPreviousWeek ==
    [][AskedFor("last_week") =>
          LET monday == today' - weekday(today') IN
          /\ ReturnedTime.kind = "time"
          /\ ReturnedTime.start_date = monday - 7
          /\ ReturnedTime.end_date = ReturnedTime.start_date + 6
          /\ ReturnedTime.end_date = monday - 1
          /\ ReturnedTime.start_date <= ReturnedTime.end_date
          /\ ReturnedTime.end_date < today']_vars

\* ------------------------------------------------- the enabled analyzers
\* C33: the interpretation that understand_query returns has a component for
\* exactly the analyzers enabled in the request, also when it comes from the
\* orchestration cache.
C33_ComponentsAreTheEnabled ==
    UnderstandReturned => DOMAIN Interpretation.components = EnabledAnalyzers

\* ------------------------------------------------- responses handed out
\* C34: a response that generate_response returned on a cache miss keeps
\* cache_hit = False: no later call that is served from the same cache entry
\* changes the response object an earlier caller holds.
C34_MissResponseKeepsFlag ==
    \A i \in Tasks :
        (ReturnedSuccess(i) /\ task[i].lookup # "hit") => Result(i).rid \notin hit_flag

\* ------------------------------------------------- the inputs of the merge
\* C35: a hybrid merge leaves the two hit lists it was given as they were
\* (same relevance scores, same match types), so merging the same two lists
\* once more gives the merged list again.
C35_MergeLeavesInputs ==
    [][HybridMerges =>
          /\ semantic_results'.results = semantic_results.results
          /\ fulltext_results'.results = fulltext_results.results
          /\ _merge_search_results(semantic_results'.results,
                                   fulltext_results'.results, search_request.limit)
                = search_response'[1].results]_vars

\* ------------------------------------------------- the retry budget
\* the capability call of task i fails in this step
AttemptFails(i) == task[i].pc = "inflight" /\ task'[i].failures = task[i].failures + 1
NonRecoverable(r) == r.error # None /\ ~r.error[1][2]

\* C36: a failed attempt uses up the retry budget in the same way whatever
\* its classification: before the last attempt it is followed by the backoff
\* wait and another attempt, at the last attempt by the error response; so an
\* error response that carries a non-recoverable error, too, is returned only
\* after max_retries waits and max_retries + 1 attempts.
C36_FailuresRetriedAlike ==
    [][\A i \in Tasks :
          /\ AttemptFails(i) =>
                IF task[i].attempt < config.max_retries
                THEN /\ task'[i].pc = "backoff"
                     /\ task'[i].delays
                           = Append(task[i].delays, BackoffDelay(task[i].attempt))
                ELSE /\ task'[i].pc = "done"
                     /\ task'[i].result[1].status = "error"
          /\ (Returned(i) /\ Result(i).status = "error" /\ NonRecoverable(Result(i)))
                => /\ task[i].attempt = config.max_retries
                   /\ Len(task[i].delays) = config.max_retries]_vars

\* a call with three retries whose capability rejected the credentials four
\* times: the authentication error came back after three waits
C36_Witness ==
    \E i \in Tasks :
        /\ config.max_retries = 3
        /\ Returned(i)
        /\ Result(i).error = <<_extract_error_info("authentication")>>
        /\ task[i].invocations = 4
        /\ task[i].failures = 4
        /\ Len(task[i].delays) = 3

\* ------------------------------------------------- what the cache holds
\* C37: the adapter cache holds successful responses only.  A call that is
\* served from the cache returns a success response, and a call that starts
\* after an identical call came back with an error, the cache holding nothing
\* under their key, is not served from the cache: it goes on to the
\* capability.
C37_OnlySuccessCached ==
    [][/\ \A k \in 1..Len(_cache) : _cache[k].resp.status = "success"
       /\ \A i \in Tasks :
             (Returned(i) /\ task[i].lookup = "hit") => Result(i).status = "success"
       /\ \A i, j \in Tasks :
             (/\ Starts(i)
              /\ Returned(j)
              /\ Result(j).status = "error"
              /\ Key(i) = Key(j)
              /\ CacheIndex(_cache, Key(i)) = 0)
                 => /\ task'[i].lookup # "hit"
                    /\ \/ task'[i].invocations = 1
                       \/ ~_client']_vars

\* with caching enabled and one call at a time, a call came back with an error
\* after its retries and the identical call that followed is at the capability
C37_Witness ==
    \E i, j \in Tasks :
        /\ config.enable_caching
        /\ max_concurrent = 1
        /\ Key(i) = Key(j)
        /\ Returned(j)
        /\ Result(j).status = "error"
        /\ task[j].failures = config.max_retries + 1
        /\ task[i].pc = "inflight"
        /\ task[i].lookup = "miss"
        /\ task[i].invocations = 1

\* C38: "today" is resolved against the date of the understand_query call:
\* once the clock has reached a later day the query comes back with that later
\* day, on a first parse by a service constructed earlier as well as on a
\* repetition of a query that was analysed on an earlier day.
C38_TodayIsTheDayOfTheCall ==
    [][AskedFor("today") =>
          /\ ReturnedTime.kind = "time"
          /\ ReturnedTime.start_date = today'
          /\ ReturnedTime.end_date = today']_vars

\* ------------------------------------------------- the scale of the scores
\* C39: every hit of a hybrid result has a relevance score of at most 1.0,
\* whichever branch found it.
C39_ScoresAtMostOne ==
    (HybridReturned /\ search_response[1].success) =>
        \A i \in 1..Len(search_response[1].results) :
            search_response[1].results[i].relevance_score <= 100

\* ------------------------------------------------- the size of the caches
\* C40: whenever no store is under way the adapter's response cache holds at
\* most 1000 entries and the orchestration cache holds at most 1000 entries.
C40_CachesBounded ==
    /\ Len(_cache) <= CacheLimit
    /\ Cardinality(DOMAIN service_cache) <= ServiceCacheLimit

\* both caches are full after a store: the adapter stored a response of this
\* call and evicted its oldest entry, the service stored this call's
\* interpretation as its 1000th entry
C40_Witness ==
    /\ UnderstandReturned
    /\ Len(_cache) = CacheLimit
    /\ \E k \in 1..Len(_cache) : _cache[k].resp.rid \in Tasks
    /\ CacheIndex(_cache, WarmEntry(1).key) = 0
    /\ Cardinality(DOMAIN service_cache) = ServiceCacheLimit
    /\ _service_cache_key(CurrentRequest) \in DOMAIN service_cache

====
